---------------------------- MODULE Spec2Model ----------------------------
(***************************************************************************)
(* Match scoring, requirement analysis and email generation of the job     *)
(* finder's Convex functions (functions/search: calculateMatchScores;      *)
(* functions/emails: analyzeProjectRequirements, findBestAchievement,      *)
(* buildEmail, parseAIResponse, generateEmail, generateEmailWithAI), and   *)
(* the handlers that keep the tables: functions/projects (saveProject,     *)
(* updateMatchScore, batchUpdateMatchScores, deleteProject),               *)
(* functions/emails (getEmails, getEmail, deleteEmail), functions/profile  *)
(* (saveProfile, createDefaultProfile, deleteProfile) and functions/search *)
(* (getQueryHash, searchProjects, clearCache).                             *)
(*                                                                         *)
(* A JavaScript string is modelled as the sequence of its characters, each *)
(* character a one-character string, so that toLowerCase and               *)
(* String.prototype.includes are computed, not assumed.  An optional field *)
(* that is absent is a field the record does not have.                     *)
(*                                                                         *)
(* The Chinese prefixes of the reason strings and the Chinese need and     *)
(* pain-point labels are written as ASCII tokens (one token per literal of *)
(* the source); the table is given where they are defined.                 *)
(***************************************************************************)
EXTENDS Integers, Sequences, FiniteSets, TLC

VARIABLES
    userProfiles,   \* the userProfiles table, in insertion order
    projects,       \* the projects table: the stored project of each _id
    generatedEmails,\* the generatedEmails table, in insertion order
    searchHistory,  \* the searchHistory table, in insertion order
    exaSearchCache, \* the exaSearchCache table, in insertion order
    idCounter,      \* the number of document ids the database has given out
    now,            \* the clock Date.now() reads
    inFlight,       \* the calls that wait for the answer of a fetch, in the
                    \* order they began: each with what it read before
    request,        \* the function call being served: its caller and arguments
    response        \* the outcome of that call, NoResponse until it is served

vars ==
    <<userProfiles, projects, generatedEmails, searchHistory, exaSearchCache,
      idCounter, now, inFlight, request, response>>

-----------------------------------------------------------------------------
(* Bounds of the model *)

\* most projects in one calculateMatchScores call
MaxBatch == 2

\* most vocabulary words in the title of an analysed project
MaxTitleWords == 2

\* most vocabulary words in the description of an analysed project
MaxDescWords == 1

-----------------------------------------------------------------------------
(* JavaScript strings *)

UpperCase ==
    <<"A", "B", "C", "D", "E", "F", "G", "H", "I", "J", "K", "L", "M",
      "N", "O", "P", "Q", "R", "S", "T", "U", "V", "W", "X", "Y", "Z">>

LowerCase ==
    <<"a", "b", "c", "d", "e", "f", "g", "h", "i", "j", "k", "l", "m",
      "n", "o", "p", "q", "r", "s", "t", "u", "v", "w", "x", "y", "z">>

\* the lower-case letter of each upper-case letter
lowerOf ==
    [c \in {UpperCase[i] : i \in 1..Len(UpperCase)} |->
        LowerCase[CHOOSE i \in 1..Len(UpperCase) : UpperCase[i] = c]]

toLowerCaseChar(c) ==
    IF c \in DOMAIN lowerOf THEN lowerOf[c] ELSE c

\* String.prototype.toLowerCase
toLowerCase(s) ==
    [i \in 1..Len(s) |-> toLowerCaseChar(s[i])]

\* String.prototype.includes: kw occurs in text as a substring
\* (the empty string occurs in every string)
includes(text, kw) ==
    \E i \in 0..(Len(text) - Len(kw)) : SubSeq(text, i + 1, i + Len(kw)) = kw

\* Array.prototype.includes: strict equality with an element
arrayIncludes(list, x) ==
    \E i \in 1..Len(list) : list[i] = x

Space == <<" ">>

Min(a, b) == IF a <= b THEN a ELSE b

\* an optional field is present
Has(rec, field) == field \in DOMAIN rec

\* JavaScript truthiness of an optional string field
TruthyString(rec, field) == Has(rec, field) /\ rec[field] # <<>>

\* JavaScript truthiness of an optional number field
TruthyNumber(rec, field) == Has(rec, field) /\ rec[field] # 0

-----------------------------------------------------------------------------
(* String literals of the source and of the inputs *)

kw_dashboard ==
    <<"d", "a", "s", "h", "b", "o", "a", "r", "d">>
kw_analytics ==
    <<"a", "n", "a", "l", "y", "t", "i", "c", "s">>
kw_data ==
    <<"d", "a", "t", "a">>
kw_b2b ==
    <<"b", "2", "b">>
kw_saas ==
    <<"s", "a", "a", "s">>
kw_enterprise ==
    <<"e", "n", "t", "e", "r", "p", "r", "i", "s", "e">>
kw_merchant ==
    <<"m", "e", "r", "c", "h", "a", "n", "t">>
kw_business ==
    <<"b", "u", "s", "i", "n", "e", "s", "s">>
kw_commerce ==
    <<"c", "o", "m", "m", "e", "r", "c", "e">>
kw_mobile ==
    <<"m", "o", "b", "i", "l", "e">>
kw_app ==
    <<"a", "p", "p">>
kw_design_system ==
    <<"d", "e", "s", "i", "g", "n", " ", "s", "y", "s", "t", "e", "m">>
kw_component ==
    <<"c", "o", "m", "p", "o", "n", "e", "n", "t">>
kw_redesign ==
    <<"r", "e", "d", "e", "s", "i", "g", "n">>
s_SaaS ==
    <<"S", "a", "a", "S">>
s_FinTech ==
    <<"F", "i", "n", "T", "e", "c", "h">>
s_Retail ==
    <<"R", "e", "t", "a", "i", "l">>
s_B2B_saas ==
    <<"B", "2", "B", " ", "s", "a", "a", "s">>
s_Enterprise ==
    <<"E", "n", "t", "e", "r", "p", "r", "i", "s", "e">>
s_Startup ==
    <<"S", "t", "a", "r", "t", "u", "p">>
s_ScenarioTitle ==
    <<"S", "a", "a", "S", " ", "D", "a", "s", "h", "b", "o", "a", "r", "d", " ",
      "R", "e", "d", "e", "s", "i", "g", "n">>
s_Logo ==
    <<"L", "o", "g", "o">>
s_DASHBOARD_app ==
    <<"D", "A", "S", "H", "B", "O", "A", "R", "D", " ", "a", "p", "p">>
s_Dashboard ==
    <<"D", "a", "s", "h", "b", "o", "a", "r", "d">>
s_Merchant ==
    <<"M", "e", "r", "c", "h", "a", "n", "t">>
s_App ==
    <<"A", "p", "p">>
s_Design ==
    <<"D", "e", "s", "i", "g", "n">>
s_system ==
    <<"s", "y", "s", "t", "e", "m">>
s_empty ==
    <<>>

(* Reason prefixes of calculateMatchScores.  Token        Source literal   *)
(*   "HighKeyword: "       part_001:206  "匹配关键词: "                     *)
(*   "MediumKeyword: "     part_001:213  "部分匹配: "                       *)
(*   "HighIndustry: "      part_001:222  "优先行业: "                       *)
(*   "MediumIndustry: "    part_001:229  "中等行业: "                       *)
(*   "HighClientType: "    part_001:238  "优先客户类型: "                   *)
(*   "MediumClientType: "  part_001:241  "中等客户类型: "                   *)
(*   "Budget >= $2000"     part_001:249  "预算符合期望 (>= $2000)"          *)
(*   "Budget >= $1000"     part_001:252  "预算中等 (>= $1000)"              *)
(* A reason is the prefix token followed by the characters of the value    *)
(* the template interpolates.                                              *)

-----------------------------------------------------------------------------
(* calculateMatchScores: the scoring of one project (the map callback) *)

\* combinedText with the toLowerCase call forgotten
combinedText_caseSensitive(project) ==
    project.title \o Space \o project.description

\* `${project.title} ${project.description}`.toLowerCase()
combinedText(project) ==
    toLowerCase(project.title \o Space \o project.description)

\* the entries of a profile list that occur in the text, in list order:
\* list.forEach(e => { if (text.includes(e.toLowerCase())) ... })
matchingEntries(list, text) ==
    SelectSeq(list, LAMBDA e : includes(text, toLowerCase(e)))

\* one reason per hit: `${prefix}${entry}`
reasonsFor(prefix, hits) ==
    [i \in 1..Len(hits) |-> <<prefix>> \o hits[i]]

\* (project.industry || "").toLowerCase()
industryText(project) ==
    IF TruthyString(project, "industry") THEN toLowerCase(project.industry) ELSE <<>>

\* keywordRule with a first-tier-wins rule: a medium-tier keyword that is
\* also a high-tier keyword is skipped
keywordRule_firstTierWins(project, keywords) ==
    LET high == matchingEntries(keywords.highMatch, combinedText(project))
        medium == SelectSeq(
                      matchingEntries(keywords.mediumMatch, combinedText(project)),
                      LAMBDA kw : ~arrayIncludes(keywords.highMatch, kw))
    IN  [points |-> 10 * Len(high) + 5 * Len(medium),
         reasons |-> reasonsFor("HighKeyword: ", high)
                     \o reasonsFor("MediumKeyword: ", medium)]

\* the keyword rules: 10 per high-tier hit, 5 per medium-tier hit
keywordRule(project, keywords) ==
    LET high == matchingEntries(keywords.highMatch, combinedText(project))
        medium == matchingEntries(keywords.mediumMatch, combinedText(project))
    IN  [points |-> 10 * Len(high) + 5 * Len(medium),
         reasons |-> reasonsFor("HighKeyword: ", high)
                     \o reasonsFor("MediumKeyword: ", medium)]

\* the industry rules: 30 per high-priority hit, 15 per medium-priority hit
industryRule(project, industries) ==
    LET high == matchingEntries(industries.highPriority, industryText(project))
        medium == matchingEntries(industries.mediumPriority, industryText(project))
    IN  [points |-> 30 * Len(high) + 15 * Len(medium),
         reasons |-> reasonsFor("HighIndustry: ", high)
                     \o reasonsFor("MediumIndustry: ", medium)]

\* clientTypeRule comparing lower-cased values
clientTypeRule_caseInsensitive(project, clientTypes) ==
    LET lower(list) == [i \in 1..Len(list) |-> toLowerCase(list[i])]
    IN  IF ~TruthyString(project, "clientType")
        THEN [points |-> 0, reasons |-> <<>>]
        ELSE IF arrayIncludes(lower(clientTypes.highPriority),
                              toLowerCase(project.clientType))
        THEN [points |-> 20,
              reasons |-> <<(<<"HighClientType: ">> \o project.clientType)>>]
        ELSE IF arrayIncludes(lower(clientTypes.mediumPriority),
                              toLowerCase(project.clientType))
        THEN [points |-> 10,
              reasons |-> <<(<<"MediumClientType: ">> \o project.clientType)>>]
        ELSE [points |-> 0, reasons |-> <<>>]

\* the client-type rule: Array.includes on the two priority lists
clientTypeRule(project, clientTypes) ==
    IF ~TruthyString(project, "clientType")
    THEN [points |-> 0, reasons |-> <<>>]
    ELSE IF arrayIncludes(clientTypes.highPriority, project.clientType)
    THEN [points |-> 20,
          reasons |-> <<(<<"HighClientType: ">> \o project.clientType)>>]
    ELSE IF arrayIncludes(clientTypes.mediumPriority, project.clientType)
    THEN [points |-> 10,
          reasons |-> <<(<<"MediumClientType: ">> \o project.clientType)>>]
    ELSE [points |-> 0, reasons |-> <<>>]

\* budgetRule with the points of the two thresholds swapped
budgetRule_swappedPoints(project) ==
    IF ~TruthyNumber(project, "budget")
    THEN [points |-> 0, reasons |-> <<>>]
    ELSE IF project.budget >= 2000
    THEN [points |-> 5, reasons |-> << <<"Budget >= $2000">> >>]
    ELSE IF project.budget >= 1000
    THEN [points |-> 10, reasons |-> << <<"Budget >= $1000">> >>]
    ELSE [points |-> 0, reasons |-> <<>>]

\* the budget rule
budgetRule(project) ==
    IF ~TruthyNumber(project, "budget")
    THEN [points |-> 0, reasons |-> <<>>]
    ELSE IF project.budget >= 2000
    THEN [points |-> 10, reasons |-> << <<"Budget >= $2000">> >>]
    ELSE IF project.budget >= 1000
    THEN [points |-> 5, reasons |-> << <<"Budget >= $1000">> >>]
    ELSE [points |-> 0, reasons |-> <<>>]

\* priorityLabelOf with the 70/50/30 thresholds of the script variants
priorityLabelOf_70_50_30(score) ==
    IF score >= 70 THEN "A"
    ELSE IF score >= 50 THEN "B"
    ELSE IF score >= 30 THEN "C"
    ELSE "D"

\* the label banding of the accumulated score
priorityLabelOf(score) ==
    IF score >= 80 THEN "A"
    ELSE IF score >= 60 THEN "B"
    ELSE IF score >= 40 THEN "C"
    ELSE "D"

\* matchScoreOf with the cap forgotten
matchScoreOf_uncapped(score) ==
    score

\* Math.min(score, 100)
matchScoreOf(score) ==
    Min(score, 100)

\* the callback of args.projects.map
scoreProject(project, profile) ==
    LET kw == keywordRule(project, profile.expertiseKeywords)
        ind == industryRule(project, profile.preferredIndustries)
        ct == clientTypeRule(project, profile.preferredClientTypes)
        bud == budgetRule(project)
        score == kw.points + ind.points + ct.points + bud.points
    IN  [matchScore |-> matchScoreOf(score),
         matchReasons |-> kw.reasons \o ind.reasons \o ct.reasons \o bud.reasons,
         priorityScore |-> score * 100,
         priorityLabel |-> priorityLabelOf(score)] @@ project

-----------------------------------------------------------------------------
(* Inputs of calculateMatchScores *)

\* ctx.auth.getUserIdentity() of an unauthenticated caller
NoIdentity == "null"

\* identity.subject of the authenticated callers
Users == {"user1"}

\* the outcome before any call
NoResponse == [op |-> "none"]

\* expertiseKeywords of the stored profiles
KeywordInputs ==
    [highMatch : {<<kw_dashboard>>, <<kw_dashboard, kw_redesign, kw_saas>>},
     mediumMatch : {<<>>, <<kw_dashboard>>}]

\* preferredIndustries of the stored profiles
IndustryInputs ==
    [highPriority : {<<>>, <<s_SaaS>>, <<s_empty>>},
     mediumPriority : {<<>>, <<s_SaaS>>}]

\* preferredClientTypes of the stored profiles
ClientTypeInputs ==
    {[highPriority |-> <<>>, mediumPriority |-> <<>>],
     [highPriority |-> <<s_Enterprise>>,
      mediumPriority |-> <<s_Enterprise, s_Startup>>]}

\* the userProfiles documents saveProfile can have stored for user1
ProfileInputs ==
    [userId : {"user1"},
     expertiseKeywords : KeywordInputs,
     preferredIndustries : IndustryInputs,
     preferredClientTypes : ClientTypeInputs]

TitleInputs == {s_ScenarioTitle, s_Logo}

DescriptionInputs == {s_empty, s_DASHBOARD_app}

BudgetInputs == {999, 1000, 2500}

ProjectIndustryInputs == {s_SaaS, s_B2B_saas, s_Retail}

ProjectClientTypeInputs == {s_Enterprise, kw_enterprise, s_Startup}

\* the records of S, each also with the optional field set to a value
WithOptional(S, field, values) ==
    S \cup {(field :> v) @@ p : p \in S, v \in values}

\* the elements of args.projects: title and description are required,
\* budget, industry and clientType optional
ProjectInputs ==
    WithOptional(
        WithOptional(
            WithOptional([title : TitleInputs, description : DescriptionInputs],
                         "budget", BudgetInputs),
            "industry", ProjectIndustryInputs),
        "clientType", ProjectClientTypeInputs)

\* the record without one field
Without(rec, field) ==
    [f \in (DOMAIN rec) \ {field} |-> rec[f]]

\* the projects that are p with one of its signals taken away: an
\* optional field dropped, the budget lowered to the next lower input,
\* the description emptied
FewerSignals(p) ==
    {Without(p, f) : f \in (DOMAIN p) \cap {"budget", "industry", "clientType"}}
    \cup {[p EXCEPT !.budget = b] :
             b \in {x \in BudgetInputs :
                       /\ Has(p, "budget")
                       /\ x < p.budget
                       /\ \A y \in BudgetInputs : y < p.budget => y <= x}}
    \cup {[p EXCEPT !.description = s_empty] :
             x \in {y \in {0} : p.description # s_empty}}

RECURSIVE BatchesOfLen(_)
\* the batches of n projects: a project followed by projects that each
\* have fewer signals than the one before
BatchesOfLen(n) ==
    IF n = 0 THEN {<<>>}
    ELSE IF n = 1 THEN {<<p>> : p \in ProjectInputs}
    ELSE UNION {{Append(b, q) : q \in FewerSignals(b[n - 1])} :
                   b \in BatchesOfLen(n - 1)}

\* the values of args.projects
BatchInputs ==
    UNION {BatchesOfLen(n) : n \in 0..MaxBatch}

\* the calls of calculateMatchScores: by user1 with every batch, and by an
\* unauthenticated caller with the batches of at most one project
ScoreRequests ==
    [op : {"calculateMatchScores"}, identity : Users, projects : BatchInputs]
    \cup [op : {"calculateMatchScores"}, identity : {NoIdentity},
          projects : BatchesOfLen(0) \cup BatchesOfLen(1)]

-----------------------------------------------------------------------------
(* calculateMatchScores: the handler *)

\* ctx.db.query("userProfiles").withIndex("by_userId", eq userId).first():
\* the oldest document of the user, or null
firstProfileOf(userId) ==
    LET own == SelectSeq(userProfiles, LAMBDA d : d.userId = userId)
    IN  IF own = <<>> THEN <<>> ELSE <<own[1]>>

\* the outcome of the handler for a caller and its args.projects
matchScoresOutcome(identity, projectsArg) ==
    IF identity = NoIdentity
    THEN [op |-> "calculateMatchScores", status |-> "error",
          error |-> "Unauthorized"]
    ELSE IF firstProfileOf(identity) = <<>>
    THEN [op |-> "calculateMatchScores", status |-> "error",
          error |-> "Profile not found"]
    ELSE [op |-> "calculateMatchScores", status |-> "ok",
          value |-> [i \in 1..Len(projectsArg) |->
                       scoreProject(projectsArg[i],
                                    firstProfileOf(identity)[1])]]

calculateMatchScores ==
    /\ request.op = "calculateMatchScores"
    /\ response = NoResponse
    /\ response' = matchScoresOutcome(request.identity, request.projects)
    /\ UNCHANGED <<userProfiles, projects, generatedEmails, searchHistory,
                   exaSearchCache, idCounter, now, inFlight, request>>

-----------------------------------------------------------------------------
(* The specification of the scorer: a stored profile table, one call *)

Init ==
    /\ userProfiles \in {<<>>} \cup {<<p>> : p \in ProfileInputs}
    /\ projects = <<>>
    /\ generatedEmails = <<>>
    /\ searchHistory = <<>>
    /\ exaSearchCache = <<>>
    /\ idCounter = 0
    /\ now = 0
    /\ inFlight = <<>>
    /\ request \in ScoreRequests
    /\ response = NoResponse

Next ==
    calculateMatchScores

Spec == Init /\ [][Next]_vars

-----------------------------------------------------------------------------
(* Reading the outcome of a calculateMatchScores call *)

\* the call was served with a result
Scored ==
    response.op = "calculateMatchScores" /\ response.status = "ok"

\* the indices of the returned results
ResultIndices ==
    IF Scored THEN 1..Len(response.value) ELSE {}

\* the profile the served call read
CallerProfile ==
    firstProfileOf(request.identity)[1]

\* the elements of a list
Elements(list) ==
    {list[i] : i \in 1..Len(list)}

KeywordPrefixes == {"HighKeyword: ", "MediumKeyword: "}
IndustryPrefixes == {"HighIndustry: ", "MediumIndustry: "}
ClientTypePrefixes == {"HighClientType: ", "MediumClientType: "}
BudgetReasons == {<<"Budget >= $2000">>, <<"Budget >= $1000">>}

\* the reasons of a list that start with one of the prefixes
ReasonsWith(reasons, prefixes) ==
    SelectSeq(reasons, LAMBDA r : r[1] \in prefixes)

\* the points the rule that wrote a reason adds with it
PointsOfReason(r) ==
    CASE r[1] = "HighKeyword: " -> 10
      [] r[1] = "MediumKeyword: " -> 5
      [] r[1] = "HighIndustry: " -> 30
      [] r[1] = "MediumIndustry: " -> 15
      [] r[1] = "HighClientType: " -> 20
      [] r[1] = "MediumClientType: " -> 10
      [] r[1] = "Budget >= $2000" -> 10
      [] r[1] = "Budget >= $1000" -> 5

RECURSIVE AccumulatedPoints(_)
\* the points of all the rule hits a reasons list records
AccumulatedPoints(reasons) ==
    IF reasons = <<>> THEN 0
    ELSE PointsOfReason(Head(reasons)) + AccumulatedPoints(Tail(reasons))

\* the lower-cased title and description of a project, joined by a space
TextOf(p) ==
    toLowerCase(p.title \o <<" ">> \o p.description)

-----------------------------------------------------------------------------
(* C1 *)

\* C1: the matchScore of every result is min(accumulated rule points, 100),
\* the accumulated points being those of the rule hits listed in its
\* matchReasons, and so lies in 0..100.
C1_MatchScoreClamped ==
    \A i \in ResultIndices :
        /\ response.value[i].matchScore =
               Min(AccumulatedPoints(response.value[i].matchReasons), 100)
        /\ response.value[i].matchScore \in 0..100

\* a result whose rules accumulated more than 100 points
C1_Witness ==
    \E i \in ResultIndices :
        /\ AccumulatedPoints(response.value[i].matchReasons) > 100
        /\ response.value[i].matchScore = 100

-----------------------------------------------------------------------------
(* C3 *)

\* C3: the priorityLabel of every result is the band of its returned
\* matchScore: A from 80, B from 60 to 79, C from 40 to 59, D below 40.
C3_LabelBands ==
    \A i \in ResultIndices :
        LET r == response.value[i]
        IN  /\ (r.matchScore >= 80) => (r.priorityLabel = "A")
            /\ (r.matchScore >= 60 /\ r.matchScore < 80) => (r.priorityLabel = "B")
            /\ (r.matchScore >= 40 /\ r.matchScore < 60) => (r.priorityLabel = "C")
            /\ (r.matchScore < 40) => (r.priorityLabel = "D")

\* one call returns a result clamped to 100 and labelled A next to a
\* result labelled B
C3_Witness ==
    \E i, j \in ResultIndices :
        /\ response.value[i].priorityScore > 10000
        /\ response.value[i].priorityLabel = "A"
        /\ response.value[j].priorityLabel = "B"

-----------------------------------------------------------------------------
(* C2 *)

\* result i scores the scenario project (title "SaaS Dashboard Redesign",
\* industry "SaaS", budget 2500, clientType "Enterprise") against a profile
\* whose only high-tier keyword is dashboard, whose only high-priority
\* industry is SaaS and whose high-priority client types contain Enterprise
IsScenario(i) ==
    LET p == request.projects[i]
        prof == CallerProfile
    IN  /\ p.title = s_ScenarioTitle
        /\ Has(p, "industry") /\ p.industry = s_SaaS
        /\ Has(p, "budget") /\ p.budget = 2500
        /\ Has(p, "clientType") /\ p.clientType = s_Enterprise
        /\ prof.expertiseKeywords.highMatch = <<kw_dashboard>>
        /\ prof.preferredIndustries.highPriority = <<s_SaaS>>
        /\ s_Enterprise \in Elements(prof.preferredClientTypes.highPriority)

\* no medium-tier keyword and no medium-priority industry of the profile
\* occurs in the project of result i
NoMediumTierHit(i) ==
    LET p == request.projects[i]
        prof == CallerProfile
    IN  /\ \A kw \in Elements(prof.expertiseKeywords.mediumMatch) :
               ~includes(TextOf(p), toLowerCase(kw))
        /\ \A ind \in Elements(prof.preferredIndustries.mediumPriority) :
               ~includes(toLowerCase(p.industry), toLowerCase(ind))

\* C2 as stated: the scenario yields a score in 70..100, exactly 4
\* reasons and priorityLabel A.
C2_ScenarioLabelA ==
    \A i \in ResultIndices :
        IsScenario(i) =>
            /\ response.value[i].matchScore \in 70..100
            /\ Len(response.value[i].matchReasons) = 4
            /\ response.value[i].priorityLabel = "A"

\* C2 amended: the scenario yields a score in 70..100 and at least 4
\* reasons; the label is A only when the score reaches 80 and B otherwise;
\* when no medium-tier entry of the profile matches, the score is exactly
\* 70, there are exactly 4 reasons and the label is B.
C2_ScenarioBanded ==
    \A i \in ResultIndices :
        IsScenario(i) =>
            LET r == response.value[i]
            IN  /\ r.matchScore \in 70..100
                /\ Len(r.matchReasons) >= 4
                /\ r.priorityLabel = (IF r.matchScore >= 80 THEN "A" ELSE "B")
                /\ NoMediumTierHit(i) =>
                       /\ r.matchScore = 70
                       /\ Len(r.matchReasons) = 4
                       /\ r.priorityLabel = "B"

\* the scenario scored against a profile without medium-tier hits
C2_Witness ==
    \E i \in ResultIndices :
        /\ IsScenario(i)
        /\ NoMediumTierHit(i)
        /\ response.value[i].matchScore = 70
        /\ response.value[i].priorityLabel = "B"

-----------------------------------------------------------------------------
(* C4 *)

\* the project of result i carries no signal: no profile keyword occurs in
\* its text, no profile industry occurs in its industry field or the field
\* is absent, its client type is in neither list or absent, its budget is
\* below every threshold or absent
NoSignal(i) ==
    LET p == request.projects[i]
        prof == CallerProfile
    IN  /\ \A kw \in Elements(prof.expertiseKeywords.highMatch)
                     \cup Elements(prof.expertiseKeywords.mediumMatch) :
               ~includes(TextOf(p), toLowerCase(kw))
        /\ \/ ~Has(p, "industry")
           \/ \A ind \in Elements(prof.preferredIndustries.highPriority)
                         \cup Elements(prof.preferredIndustries.mediumPriority) :
                  ~includes(toLowerCase(p.industry), toLowerCase(ind))
        /\ \/ ~Has(p, "clientType")
           \/ p.clientType \notin
                  Elements(prof.preferredClientTypes.highPriority)
                  \cup Elements(prof.preferredClientTypes.mediumPriority)
        /\ \/ ~Has(p, "budget")
           \/ p.budget < 1000

\* C4: a project without any signal gets matchScore 0 and no reasons.
C4_NoSignalScoresZero ==
    \A i \in ResultIndices :
        NoSignal(i) =>
            /\ response.value[i].matchScore = 0
            /\ response.value[i].matchReasons = <<>>

-----------------------------------------------------------------------------
(* C5 *)

\* project a carries every signal project b carries: b's text occurs in
\* a's text, b's industry in a's industry, b has no client type or a has
\* the same one, b has no budget or a's budget is at least b's
AtLeastTheSignalsOf(a, b) ==
    /\ includes(TextOf(a), TextOf(b))
    /\ includes(IF Has(a, "industry") THEN toLowerCase(a.industry) ELSE <<>>,
                IF Has(b, "industry") THEN toLowerCase(b.industry) ELSE <<>>)
    /\ \/ ~Has(b, "clientType")
       \/ Has(a, "clientType") /\ a.clientType = b.clientType
    /\ \/ ~Has(b, "budget")
       \/ Has(a, "budget") /\ a.budget >= b.budget

\* C5: for one profile, a project that carries every signal of another
\* project and more never gets a lower matchScore than it.
C5_ScoreMonotone ==
    \A i, j \in ResultIndices :
        AtLeastTheSignalsOf(request.projects[i], request.projects[j]) =>
            response.value[i].matchScore >= response.value[j].matchScore

\* one call scores a project and the same project with one signal less,
\* and the extra signal raised the score
C5_Witness ==
    \E i, j \in ResultIndices :
        /\ request.projects[i] # request.projects[j]
        /\ AtLeastTheSignalsOf(request.projects[i], request.projects[j])
        /\ response.value[i].matchScore > response.value[j].matchScore

-----------------------------------------------------------------------------
(* C6 *)

\* the lower-cased entries of a list
LowerElements(list) ==
    {toLowerCase(e) : e \in Elements(list)}

\* the client-type reasons of result i
ClientTypeReasons(i) ==
    ReasonsWith(response.value[i].matchReasons, ClientTypePrefixes)

\* C6 as stated: a client type that equals a high-priority entry up to
\* letter case gains 20 points and one reason; one that equals only a
\* medium-priority entry up to letter case gains 10 points and one reason.
C6_CaseInsensitiveMembership ==
    \A i \in ResultIndices :
        LET p == request.projects[i]
            types == CallerProfile.preferredClientTypes
        IN  TruthyString(p, "clientType") =>
                /\ toLowerCase(p.clientType) \in LowerElements(types.highPriority) =>
                       ClientTypeReasons(i) =
                           <<(<<"HighClientType: ">> \o p.clientType)>>
                /\ /\ toLowerCase(p.clientType) \notin LowerElements(types.highPriority)
                   /\ toLowerCase(p.clientType) \in LowerElements(types.mediumPriority)
                   => ClientTypeReasons(i) =
                          <<(<<"MediumClientType: ">> \o p.clientType)>>

\* C6 amended: the membership test is exact and case-sensitive.  A client
\* type that is an entry of the high-priority list gains 20 points and one
\* reason; one that is an entry of the medium-priority list only gains 10
\* points and one reason; one that is an entry of neither list, also when
\* it differs from an entry by letter case only, gains nothing.  The points
\* of every recorded reason are part of the accumulated score.
C6_ExactMembership ==
    \A i \in ResultIndices :
        LET p == request.projects[i]
            types == CallerProfile.preferredClientTypes
            r == response.value[i]
        IN  /\ r.priorityScore = 100 * AccumulatedPoints(r.matchReasons)
            /\ TruthyString(p, "clientType") =>
                 /\ p.clientType \in Elements(types.highPriority) =>
                        ClientTypeReasons(i) =
                            <<(<<"HighClientType: ">> \o p.clientType)>>
                 /\ /\ p.clientType \notin Elements(types.highPriority)
                    /\ p.clientType \in Elements(types.mediumPriority)
                    => ClientTypeReasons(i) =
                           <<(<<"MediumClientType: ">> \o p.clientType)>>
                 /\ p.clientType \notin Elements(types.highPriority)
                                        \cup Elements(types.mediumPriority)
                    => ClientTypeReasons(i) = <<>>

\* a client type that differs from a high-priority entry by case only was
\* scored and gained nothing
C6_Witness ==
    \E i \in ResultIndices :
        /\ TruthyString(request.projects[i], "clientType")
        /\ request.projects[i].clientType
               \notin Elements(CallerProfile.preferredClientTypes.highPriority)
        /\ toLowerCase(request.projects[i].clientType)
               \in LowerElements(CallerProfile.preferredClientTypes.highPriority)
        /\ ClientTypeReasons(i) = <<>>

-----------------------------------------------------------------------------
(* C7 *)

\* the number of reasons of result i that one of the prefixes wrote for
\* the entry
ReasonCount(i, prefixes, entry) ==
    Len(SelectSeq(response.value[i].matchReasons,
                  LAMBDA r : r[1] \in prefixes /\ Tail(r) = entry))

\* the keywords that are in both tiers and occur in the project of result i
SharedKeywordHits(i) ==
    {kw \in Elements(CallerProfile.expertiseKeywords.highMatch)
            \cap Elements(CallerProfile.expertiseKeywords.mediumMatch) :
        includes(TextOf(request.projects[i]), toLowerCase(kw))}

\* the industries that are in both tiers and occur in the industry field
\* of the project of result i
SharedIndustryHits(i) ==
    {ind \in Elements(CallerProfile.preferredIndustries.highPriority)
             \cap Elements(CallerProfile.preferredIndustries.mediumPriority) :
        /\ Has(request.projects[i], "industry")
        /\ includes(toLowerCase(request.projects[i].industry), toLowerCase(ind))}

\* C7 as stated: a keyword (or industry) that is in both tiers and matches
\* counts once, for the high tier only: one reason, one increment.
C7_FirstTierOnly ==
    \A i \in ResultIndices :
        /\ \A kw \in SharedKeywordHits(i) :
               /\ ReasonCount(i, KeywordPrefixes, kw) = 1
               /\ ReasonCount(i, {"HighKeyword: "}, kw) = 1
        /\ \A ind \in SharedIndustryHits(i) :
               /\ ReasonCount(i, IndustryPrefixes, ind) = 1
               /\ ReasonCount(i, {"HighIndustry: "}, ind) = 1

\* C7 amended: the tiers are evaluated independently.  A keyword (or
\* industry) that is in both tiers and matches is counted for each tier:
\* matchReasons holds a high-tier entry and a medium-tier entry for it,
\* which differ in their prefix, and the score is incremented for both
\* (10 + 5 for a keyword, 30 + 15 for an industry).
C7_BothTiersCount ==
    \A i \in ResultIndices :
        /\ response.value[i].priorityScore =
               100 * AccumulatedPoints(response.value[i].matchReasons)
        /\ \A kw \in SharedKeywordHits(i) :
               /\ ReasonCount(i, {"HighKeyword: "}, kw) >= 1
               /\ ReasonCount(i, {"MediumKeyword: "}, kw) >= 1
        /\ \A ind \in SharedIndustryHits(i) :
               /\ ReasonCount(i, {"HighIndustry: "}, ind) >= 1
               /\ ReasonCount(i, {"MediumIndustry: "}, ind) >= 1

\* a project was scored in which a keyword of both tiers occurs
C7_Witness ==
    \E i \in ResultIndices :
        /\ SharedKeywordHits(i) # {}
        /\ SharedIndustryHits(i) # {}
        /\ Len(response.value[i].matchReasons) >= 4

-----------------------------------------------------------------------------
(* C8 *)

\* C8: a call by a user with a stored profile returns one result per
\* project, and in each result an absent industry, clientType or budget
\* contributes no reason (and so no points).
C8_AbsentFieldsContributeNothing ==
    (/\ response # NoResponse
     /\ request.identity # NoIdentity
     /\ firstProfileOf(request.identity) # <<>>) =>
        /\ Scored
        /\ Len(response.value) = Len(request.projects)
        /\ \A i \in ResultIndices :
               LET p == request.projects[i]
                   r == response.value[i]
               IN  /\ r.priorityScore = 100 * AccumulatedPoints(r.matchReasons)
                   /\ ~Has(p, "industry") =>
                          ReasonsWith(r.matchReasons, IndustryPrefixes) = <<>>
                   /\ ~Has(p, "clientType") =>
                          ReasonsWith(r.matchReasons, ClientTypePrefixes) = <<>>
                   /\ ~Has(p, "budget") =>
                          SelectSeq(r.matchReasons,
                                    LAMBDA x : x \in BudgetReasons) = <<>>

-----------------------------------------------------------------------------
(* analyzeProjectRequirements *)

(* Need and pain-point labels.  Token              Source literal          *)
(*   "DataAnalysis"              part_002:347  "数据分析"                   *)
(*   "ComplexDataVisualization"  part_002:348  "数据可视化复杂"             *)
(*   "B2BEnterpriseProduct"      part_002:354  "B2B/企业产品"               *)
(*   "ComplexUserExperience"     part_002:355  "用户体验复杂"               *)
(*   "MerchantBusinessProduct"   part_002:361  "商家/商业产品"              *)
(*   "MultiRolePermissions"      part_002:362  "多角色权限管理"             *)
(*   "MobileDesign"              part_002:368  "移动端设计"                 *)
(*   "CrossPlatformConsistency"  part_002:369  "跨平台一致性"               *)
(*   "DesignSystem"              part_002:374  "设计系统"                   *)
(*   "ComponentStandardization"  part_002:375  "组件标准化"                 *)

\* the five if statements, in source order; assigns says whether the
\* body assigns pitchAngle
needRules ==
    <<[triggers |-> {kw_dashboard, kw_analytics, kw_data},
       need |-> "DataAnalysis", painPoint |-> "ComplexDataVisualization",
       assigns |-> TRUE, pitchAngle |-> "analytics", score |-> 40],
      [triggers |-> {kw_b2b, kw_saas, kw_enterprise},
       need |-> "B2BEnterpriseProduct", painPoint |-> "ComplexUserExperience",
       assigns |-> TRUE, pitchAngle |-> "b2b", score |-> 35],
      [triggers |-> {kw_merchant, kw_business, kw_commerce},
       need |-> "MerchantBusinessProduct", painPoint |-> "MultiRolePermissions",
       assigns |-> TRUE, pitchAngle |-> "merchant", score |-> 30],
      [triggers |-> {kw_mobile, kw_app},
       need |-> "MobileDesign", painPoint |-> "CrossPlatformConsistency",
       assigns |-> FALSE, pitchAngle |-> "mobile", score |-> 25],
      [triggers |-> {kw_design_system, kw_component},
       need |-> "DesignSystem", painPoint |-> "ComponentStandardization",
       assigns |-> FALSE, pitchAngle |-> "design-system", score |-> 20]>>

\* the condition of a rule's if statement
ruleMatches(rule, text) ==
    \E kw \in rule.triggers : includes(text, kw)

\* pitchAngleOf with an else-if chain: the first matching rule decides
pitchAngleOf_firstMatch(matched) ==
    LET assigning == SelectSeq(matched, LAMBDA r : r.assigns)
    IN  IF assigning = <<>> THEN "default" ELSE assigning[1].pitchAngle

\* let pitchAngle = "default", overwritten by every matching rule whose
\* body assigns it
pitchAngleOf(matched) ==
    LET assigning == SelectSeq(matched, LAMBDA r : r.assigns)
    IN  IF assigning = <<>> THEN "default"
        ELSE assigning[Len(assigning)].pitchAngle

RECURSIVE scoreOfRules(_)
\* the score increments of the matching rules
scoreOfRules(matched) ==
    IF matched = <<>> THEN 0
    ELSE Head(matched).score + scoreOfRules(Tail(matched))

\* industryBonus looking for the industry as written, without toLowerCase
industryBonus_caseSensitive(text, industries) ==
    IF \E i \in 1..Len(industries.highPriority) :
           includes(text, industries.highPriority[i])
    THEN 30 ELSE 0

\* industryBonus adding 30 for every matching industry
industryBonus_perMatch(text, industries) ==
    30 * Len(SelectSeq(industries.highPriority,
                       LAMBDA i : includes(text, toLowerCase(i))))

\* the industry check: 30 if some high-priority industry occurs in the text
industryBonus(text, industries) ==
    IF \E i \in 1..Len(industries.highPriority) :
           includes(text, toLowerCase(industries.highPriority[i]))
    THEN 30 ELSE 0

analyzeProjectRequirements(project, profile) ==
    LET text == toLowerCase(project.title \o Space \o project.description)
        matched == SelectSeq(needRules, LAMBDA r : ruleMatches(r, text))
    IN  [pitchAngle |-> pitchAngleOf(matched),
         score |-> scoreOfRules(matched)
                   + industryBonus(text, profile.preferredIndustries),
         needs |-> [i \in 1..Len(matched) |-> matched[i].need],
         painPoints |-> [i \in 1..Len(matched) |-> matched[i].painPoint]]

-----------------------------------------------------------------------------
(* Inputs of analyzeProjectRequirements *)

\* the words the analysed titles and descriptions are made of
Vocabulary ==
    {s_Dashboard, s_SaaS, s_Merchant, s_App, s_Design, s_system, s_Logo,
     s_FinTech}

RECURSIVE WordTexts(_)
\* the texts of at most n vocabulary words, joined by single spaces
WordTexts(n) ==
    IF n = 0 THEN {<<>>}
    ELSE WordTexts(n - 1)
         \cup {(IF t = <<>> THEN w ELSE t \o Space \o w) :
                  t \in WordTexts(n - 1), w \in Vocabulary}

\* the projects generateEmail hands to the analyzer (it reads title and
\* description only)
AnalyzedProjectInputs ==
    [title : WordTexts(MaxTitleWords), description : WordTexts(MaxDescWords)]

\* the profiles the analyzer is run with: it reads
\* preferredIndustries.highPriority only
AnalyzerProfileInputs ==
    [userId : {"user1"},
     expertiseKeywords : {[highMatch |-> <<kw_dashboard>>, mediumMatch |-> <<>>]},
     preferredIndustries :
         [highPriority : {<<>>, <<s_FinTech>>, <<s_FinTech, s_empty>>, <<s_SaaS>>},
          mediumPriority : {<<>>}],
     preferredClientTypes : {[highPriority |-> <<>>, mediumPriority |-> <<>>]}]

AnalyzeRequests ==
    [op : {"analyzeProjectRequirements"}, identity : Users,
     project : AnalyzedProjectInputs]

\* the call analyzeProjectRequirements(project, profile) of generateEmail
\* and generateEmailWithAI, with the profile of the caller
analyzeCall ==
    /\ request.op = "analyzeProjectRequirements"
    /\ response = NoResponse
    /\ firstProfileOf(request.identity) # <<>>
    /\ response' = [op |-> "analyzeProjectRequirements", status |-> "ok",
                    value |-> analyzeProjectRequirements(
                                  request.project,
                                  firstProfileOf(request.identity)[1])]
    /\ UNCHANGED <<userProfiles, projects, generatedEmails, searchHistory,
                   exaSearchCache, idCounter, now, inFlight, request>>

InitAnalyze ==
    /\ userProfiles \in {<<p>> : p \in AnalyzerProfileInputs}
    /\ projects = <<>>
    /\ generatedEmails = <<>>
    /\ searchHistory = <<>>
    /\ exaSearchCache = <<>>
    /\ idCounter = 0
    /\ now = 0
    /\ inFlight = <<>>
    /\ request \in AnalyzeRequests
    /\ response = NoResponse

NextAnalyze ==
    analyzeCall

SpecAnalyze == InitAnalyze /\ [][NextAnalyze]_vars

-----------------------------------------------------------------------------
(* Reading the outcome of an analyzeProjectRequirements call *)

Analyzed ==
    response.op = "analyzeProjectRequirements" /\ response.status = "ok"

\* the text of the analysed project contains one of the keywords
Triggers(keywords) ==
    \E kw \in keywords : includes(TextOf(request.project), kw)

AnalyticsTriggered == Triggers({kw_dashboard, kw_analytics, kw_data})
B2bTriggered == Triggers({kw_b2b, kw_saas, kw_enterprise})
MerchantTriggered == Triggers({kw_merchant, kw_business, kw_commerce})
MobileTriggered == Triggers({kw_mobile, kw_app})
DesignSystemTriggered == Triggers({kw_design_system, kw_component})

-----------------------------------------------------------------------------
(* C9 *)

\* the rule that is last, in the order analytics, b2b, merchant, mobile,
\* design-system, among the rules the text triggers
LastTriggeredRule ==
    IF DesignSystemTriggered THEN "design-system"
    ELSE IF MobileTriggered THEN "mobile"
    ELSE IF MerchantTriggered THEN "merchant"
    ELSE IF B2bTriggered THEN "b2b"
    ELSE IF AnalyticsTriggered THEN "analytics"
    ELSE "default"

\* C9 as stated: the pitch angle is that of the last of the five rules
\* the text triggers.
C9_LastOfFiveRules ==
    Analyzed => response.value.pitchAngle = LastTriggeredRule

\* C9 amended: only the analytics, b2b and merchant rules assign
\* pitchAngle.  The pitch angle is that of the last rule, in the order
\* analytics, b2b, merchant, that the text triggers, and "default" when it
\* triggers none of the three; the mobile and design-system rules never
\* change it.  A text that triggers the analytics rule and the b2b rule
\* and not the merchant rule resolves to b2b.
C9_LastAngleRuleWins ==
    Analyzed =>
        response.value.pitchAngle =
            (IF MerchantTriggered THEN "merchant"
             ELSE IF B2bTriggered THEN "b2b"
             ELSE IF AnalyticsTriggered THEN "analytics"
             ELSE "default")

\* a text that triggers the analytics, b2b and mobile rules was analysed
\* and got the angle b2b
C9_Witness ==
    /\ Analyzed
    /\ AnalyticsTriggered /\ B2bTriggered /\ MobileTriggered
    /\ ~MerchantTriggered
    /\ response.value.pitchAngle = "b2b"

-----------------------------------------------------------------------------
(* C10 *)

NoRuleTriggered ==
    /\ ~AnalyticsTriggered /\ ~B2bTriggered /\ ~MerchantTriggered
    /\ ~MobileTriggered /\ ~DesignSystemTriggered

\* a high-priority industry of the caller's profile occurs in the text
IndustryInText ==
    \E ind \in Elements(CallerProfile.preferredIndustries.highPriority) :
        includes(TextOf(request.project), toLowerCase(ind))

\* C10 as stated: when no rule matches, the result is pitchAngle
\* "default", score 0 and empty needs and painPoints, for every profile.
C10_DefaultScoreZero ==
    (Analyzed /\ NoRuleTriggered) =>
        /\ response.value.pitchAngle = "default"
        /\ response.value.score = 0
        /\ response.value.needs = <<>>
        /\ response.value.painPoints = <<>>

\* C10 amended: when no rule matches, the result is pitchAngle "default"
\* and empty needs and painPoints; the score is 0 unless a high-priority
\* industry of the profile occurs in the title+description text, in which
\* case it is the industry bonus of 30.
C10_DefaultPath ==
    (Analyzed /\ NoRuleTriggered) =>
        /\ response.value.pitchAngle = "default"
        /\ response.value.score = (IF IndustryInText THEN 30 ELSE 0)
        /\ response.value.needs = <<>>
        /\ response.value.painPoints = <<>>

\* a text that triggers no rule and names a high-priority industry was
\* analysed
C10_Witness ==
    /\ Analyzed
    /\ NoRuleTriggered
    /\ IndustryInText
    /\ response.value.score = 30
    /\ response.value.pitchAngle = "default"

-----------------------------------------------------------------------------
(* findBestAchievement (functions/emails) *)

s_X ==
    <<"X">>
s_Y ==
    <<"Y">>
s_Z ==
    <<"Z">>
s_W ==
    <<"W">>
s_result ==
    <<"c", "u", "t", " ", "c", "h", "u", "r", "n", " ", "3", "0", "%">>
s_Alipay ==
    <<"A", "l", "i", "p", "a", "y">>
s_Merchant_onboarding ==
    <<"M", "e", "r", "c", "h", "a", "n", "t", " ", "o", "n", "b", "o", "a",
      "r", "d", "i", "n", "g">>
s_merchant_portal ==
    <<"m", "e", "r", "c", "h", "a", "n", "t", " ", "p", "o", "r", "t", "a",
      "l">>
s_Commerce_Dashboard ==
    <<"C", "o", "m", "m", "e", "r", "c", "e", " ", "D", "a", "s", "h", "b",
      "o", "a", "r", "d">>

\* most achievements in a profile's highlightProjects
MaxAchievements == 2

\* null, as the value of bestMatch.achievement: a record with none of the
\* fields of an achievement
NoAchievement == [null |-> TRUE]

\* matchScore with the keyword compared as written
achievementScore_caseSensitive(achievement, text) ==
    10 * Len(SelectSeq(achievement.keywords, LAMBDA k : includes(text, k)))

\* the inner loop: matchScore += 10 for every keyword of the achievement
\* whose lower-case form occurs in the text
achievementScore(achievement, text) ==
    10 * Len(SelectSeq(achievement.keywords,
                       LAMBDA k : includes(text, toLowerCase(k))))

RECURSIVE bestMatchFrom(_, _, _)
\* the outer loop from the given bestMatch on: a later achievement replaces
\* bestMatch only with a strictly greater matchScore
bestMatchFrom(achievements, text, bestMatch) ==
    IF achievements = <<>> THEN bestMatch
    ELSE LET achievement == Head(achievements)
             matchScore == achievementScore(achievement, text)
         IN  bestMatchFrom(Tail(achievements), text,
                 IF matchScore > bestMatch.score
                 THEN [achievement |-> achievement, score |-> matchScore]
                 ELSE bestMatch)

RECURSIVE bestMatchFrom_lastOnTie(_, _, _)
\* the outer loop with >= in place of >
bestMatchFrom_lastOnTie(achievements, text, bestMatch) ==
    IF achievements = <<>> THEN bestMatch
    ELSE LET achievement == Head(achievements)
             matchScore == achievementScore(achievement, text)
         IN  bestMatchFrom_lastOnTie(Tail(achievements), text,
                 IF matchScore >= bestMatch.score
                 THEN [achievement |-> achievement, score |-> matchScore]
                 ELSE bestMatch)

\* findBestAchievement keeping the last achievement among equal scores
findBestAchievement_lastOnTie(achievements, project) ==
    bestMatchFrom_lastOnTie(
        achievements,
        toLowerCase(project.title \o Space \o project.description),
        [achievement |-> NoAchievement, score |-> 0])

findBestAchievement(achievements, project) ==
    bestMatchFrom(
        achievements,
        toLowerCase(project.title \o Space \o project.description),
        [achievement |-> NoAchievement, score |-> 0])

-----------------------------------------------------------------------------
(* Inputs of findBestAchievement *)

\* the highlightProjects entries the lists are made of; benchmark is optional
AchievementInputs ==
    {[name |-> s_X, result |-> s_result,
      keywords |-> <<kw_merchant, kw_commerce>>],
     [name |-> s_Y, result |-> s_result, benchmark |-> s_Alipay,
      keywords |-> <<s_Merchant>>],
     [name |-> s_Z, result |-> s_result,
      keywords |-> <<kw_dashboard, s_Dashboard, kw_commerce>>],
     [name |-> s_W, result |-> s_result, keywords |-> <<>>]}

RECURSIVE AchievementLists(_)
\* the lists of at most n achievements
AchievementLists(n) ==
    IF n = 0 THEN {<<>>}
    ELSE AchievementLists(n - 1)
         \cup {Append(l, a) : l \in AchievementLists(n - 1),
                              a \in AchievementInputs}

\* the profiles findBestAchievement is run with: it reads highlightProjects
\* only
AchievementProfileInputs ==
    [userId : {"user1"},
     expertiseKeywords : {[highMatch |-> <<kw_dashboard>>, mediumMatch |-> <<>>]},
     preferredIndustries : {[highPriority |-> <<>>, mediumPriority |-> <<>>]},
     preferredClientTypes : {[highPriority |-> <<>>, mediumPriority |-> <<>>]},
     highlightProjects : AchievementLists(MaxAchievements)]

\* the projects findBestAchievement is run with: it reads title and
\* description only
AchievementProjectInputs ==
    [title : {s_Merchant_onboarding, s_Commerce_Dashboard, s_Logo, s_empty},
     description : {s_empty, s_merchant_portal}]

AchievementRequests ==
    [op : {"findBestAchievement"}, identity : Users,
     project : AchievementProjectInputs]

\* the call findBestAchievement(profile.highlightProjects, project) of
\* generateEmail and generateEmailWithAI, with the profile of the caller
findBestAchievementCall ==
    /\ request.op = "findBestAchievement"
    /\ response = NoResponse
    /\ firstProfileOf(request.identity) # <<>>
    /\ response' = [op |-> "findBestAchievement", status |-> "ok",
                    value |-> findBestAchievement(
                                  firstProfileOf(request.identity)[1]
                                      .highlightProjects,
                                  request.project)]
    /\ UNCHANGED <<userProfiles, projects, generatedEmails, searchHistory,
                   exaSearchCache, idCounter, now, inFlight, request>>

InitAchievement ==
    /\ userProfiles \in {<<p>> : p \in AchievementProfileInputs}
    /\ projects = <<>>
    /\ generatedEmails = <<>>
    /\ searchHistory = <<>>
    /\ exaSearchCache = <<>>
    /\ idCounter = 0
    /\ now = 0
    /\ inFlight = <<>>
    /\ request \in AchievementRequests
    /\ response = NoResponse

NextAchievement ==
    findBestAchievementCall

SpecAchievement == InitAchievement /\ [][NextAchievement]_vars

-----------------------------------------------------------------------------
(* Reading the outcome of a findBestAchievement call *)

AchievementMatched ==
    response.op = "findBestAchievement" /\ response.status = "ok"

CallerAchievements ==
    CallerProfile.highlightProjects

\* the number of keyword entries of the achievement whose lower-case form
\* occurs in the lower-cased title+description of the requested project
KeywordHits(achievement) ==
    Cardinality({k \in 1..Len(achievement.keywords) :
                    includes(TextOf(request.project),
                             toLowerCase(achievement.keywords[k]))})

\* the greatest number of keyword hits of an achievement of the list
GreatestHits ==
    IF CallerAchievements = <<>> THEN 0
    ELSE CHOOSE n \in {KeywordHits(a) : a \in Elements(CallerAchievements)} :
             \A a \in Elements(CallerAchievements) : KeywordHits(a) <= n

-----------------------------------------------------------------------------
(* C12 *)

\* C12: when some achievement has a keyword hit, findBestAchievement
\* returns the achievement at the earliest position of highlightProjects
\* whose keyword-hit score is the greatest of the list: no achievement has
\* more hits and every earlier one has strictly fewer.
C12_FirstOfGreatestScore ==
    (AchievementMatched /\ GreatestHits > 0) =>
        \E i \in 1..Len(CallerAchievements) :
            /\ response.value.achievement = CallerAchievements[i]
            /\ KeywordHits(CallerAchievements[i]) = GreatestHits
            /\ \A j \in 1..(i - 1) :
                   KeywordHits(CallerAchievements[j]) < GreatestHits

\* two different achievements share the greatest score and the earlier one
\* was returned
C12_Witness ==
    /\ AchievementMatched
    /\ Len(CallerAchievements) = 2
    /\ CallerAchievements[1] # CallerAchievements[2]
    /\ KeywordHits(CallerAchievements[1]) = KeywordHits(CallerAchievements[2])
    /\ GreatestHits > 0
    /\ response.value.achievement = CallerAchievements[1]

-----------------------------------------------------------------------------
(* C13 *)

\* C13: the returned score is 10 times the number of keywords of the
\* returned achievement that occur, case-insensitively and as substrings,
\* in title+description; the returned achievement is null exactly when no
\* achievement of the list has a keyword hit, and the score is then 0.
C13_ScoreIsTenPerHit ==
    AchievementMatched =>
        /\ (response.value.achievement = NoAchievement) <=> (GreatestHits = 0)
        /\ response.value.achievement = NoAchievement =>
               response.value.score = 0
        /\ response.value.achievement # NoAchievement =>
               response.value.score =
                   10 * KeywordHits(response.value.achievement)

\* the achievement X with keywords merchant and commerce was matched against
\* the title "Merchant onboarding" and returned with score 10
C13_Witness ==
    /\ AchievementMatched
    /\ request.project.title = s_Merchant_onboarding
    /\ request.project.description = s_empty
    /\ response.value.achievement # NoAchievement
    /\ response.value.achievement.name = s_X
    /\ response.value.achievement.keywords = <<kw_merchant, kw_commerce>>
    /\ response.value.score = 10

-----------------------------------------------------------------------------
(* JavaScript strings: template literals and the string methods of          *)
(* buildEmail and parseAIResponse                                           *)

Digits ==
    <<"0", "1", "2", "3", "4", "5", "6", "7", "8", "9">>

RECURSIVE digitsOf(_)
\* the decimal digits of a natural number
digitsOf(n) ==
    IF n < 10 THEN <<Digits[n + 1]>>
    ELSE digitsOf(n \div 10) \o <<Digits[(n % 10) + 1]>>

\* `${n}` for an integer n
numberToString(n) ==
    IF n < 0 THEN <<"-">> \o digitsOf(0 - n) ELSE digitsOf(n)

s_undefined ==
    <<"u", "n", "d", "e", "f", "i", "n", "e", "d">>
s_null ==
    <<"n", "u", "l", "l">>

\* `${rec.field}` for a string field: an absent field is undefined and
\* renders as "undefined"
interpolate(rec, field) ==
    IF Has(rec, field) THEN rec[field] ELSE s_undefined

\* rec.field || fallback, for an optional string field
orElse(rec, field, fallback) ==
    IF TruthyString(rec, field) THEN rec[field] ELSE fallback

RECURSIVE join(_, _)
\* Array.prototype.join
join(list, separator) ==
    IF list = <<>> THEN <<>>
    ELSE IF Len(list) = 1 THEN list[1]
    ELSE list[1] \o separator \o join(Tail(list), separator)

\* Array.prototype.slice(0, n)
sliceFirst(list, n) ==
    SubSeq(list, 1, Min(n, Len(list)))

\* String.prototype.substring(0, n)
substringTo(s, n) ==
    SubSeq(s, 1, Min(n, Len(s)))

\* String.prototype.substring(from), from a 0-based index
substringFrom(s, from) ==
    SubSeq(s, from + 1, Len(s))

\* String.prototype.indexOf: the 0-based index of the first occurrence of
\* pattern in s, -1 when there is none
indexOf(s, pattern) ==
    LET at == {i \in 0..(Len(s) - Len(pattern)) :
                  SubSeq(s, i + 1, i + Len(pattern)) = pattern}
    IN  IF at = {} THEN 0 - 1
        ELSE CHOOSE i \in at : \A j \in at : i <= j

\* String.prototype.lastIndexOf
lastIndexOf(s, pattern) ==
    LET at == {i \in 0..(Len(s) - Len(pattern)) :
                  SubSeq(s, i + 1, i + Len(pattern)) = pattern}
    IN  IF at = {} THEN 0 - 1
        ELSE CHOOSE i \in at : \A j \in at : j <= i

\* String.prototype.replace with a string pattern: the first occurrence
\* only is replaced (the replacement is taken literally: the inputs have no
\* "$" in it)
replace(s, pattern, replacement) ==
    LET i == indexOf(s, pattern)
    IN  IF i < 0 THEN s
        ELSE SubSeq(s, 1, i) \o replacement
             \o substringFrom(s, i + Len(pattern))

-----------------------------------------------------------------------------
(* buildEmail (functions/emails) *)

\* The characters of the Chinese need labels, one element per character,
\* named by code point: analysis.needs holds the labels, and buildEmail
\* writes them into the value proposition and the second subject line.
needText ==
    "DataAnalysis" :> <<"U+6570", "U+636E", "U+5206", "U+6790">> @@
    "B2BEnterpriseProduct" :>
        <<"B", "2", "B", "/", "U+4F01", "U+4E1A", "U+4EA7", "U+54C1">> @@
    "MerchantBusinessProduct" :>
        <<"U+5546", "U+5BB6", "/", "U+5546", "U+4E1A", "U+4EA7", "U+54C1">> @@
    "MobileDesign" :> <<"U+79FB", "U+52A8", "U+7AEF", "U+8BBE", "U+8BA1">> @@
    "DesignSystem" :> <<"U+8BBE", "U+8BA1", "U+7CFB", "U+7EDF">>

\* analysis.needs as the strings the email is written with
needTexts(analysis) ==
    [i \in 1..Len(analysis.needs) |-> needText[analysis.needs[i]]]

\* the fragments of the template literals of buildEmail
t_With ==
    <<"W", "i", "t", "h", " ">>
t_years_including ==
    <<"+", " ", "y", "e", "a", "r", "s", " ", "i", "n", " ", "U", "X", " ",
      "d", "e", "s", "i", "g", "n", ",", " ", "i", "n", "c", "l", "u", "d",
      "i", "n", "g", " ">>
t_years_at_Huawei ==
    <<" ", "y", "e", "a", "r", "s", " ", "a", "t", " ", "H", "u", "a", "w",
      "e", "i", " ", "w", "o", "r", "k", "i", "n", "g", " ", "o", "n", " ",
      "e", "n", "t", "e", "r", "p", "r", "i", "s", "e", "-", "s", "c", "a",
      "l", "e", " ", "p", "l", "a", "t", "f", "o", "r", "m", "s", ",", " ",
      "I", " ", "b", "r", "i", "n", "g", " ", "d", "e", "e", "p", " ", "e",
      "x", "p", "e", "r", "t", "i", "s", "e", " ", "i", "n", " ", "c", "o",
      "m", "p", "l", "e", "x", " ", "s", "y", "s", "t", "e", "m", " ", "d",
      "e", "s", "i", "g", "n", ".">>
t_placeholder ==
    <<"{", "p", "r", "o", "j", "e", "c", "t", "_", "t", "i", "t", "l", "e",
      "}">>
t_I_specifically ==
    <<"I", " ", "s", "p", "e", "c", "i", "f", "i", "c", "a", "l", "l", "y",
      " ", "w", "o", "r", "k", "e", "d", " ", "o", "n", " ">>
t_dash ==
    <<" ", "-", " ">>
t_which_relates ==
    <<" ", "-", " ", "w", "h", "i", "c", "h", " ", "d", "i", "r", "e", "c",
      "t", "l", "y", " ", "r", "e", "l", "a", "t", "e", "s", " ", "t", "o",
      " ", "y", "o", "u", "r", " ", "n", "e", "e", "d", " ", "f", "o", "r",
      " ">>
t_period ==
    <<".">>
t_comma ==
    <<",", " ">>
t_My_expertise ==
    <<"M", "y", " ", "e", "x", "p", "e", "r", "t", "i", "s", "e", " ", "i",
      "n", " ">>
t_enables ==
    <<" ", "e", "n", "a", "b", "l", "e", "s", " ", "m", "e", " ", "t", "o",
      " ", "d", "e", "l", "i", "v", "e", "r", " ", "h", "i", "g", "h", "-",
      "q", "u", "a", "l", "i", "t", "y", " ", "s", "o", "l", "u", "t", "i",
      "o", "n", "s", " ", "f", "o", "r", " ", "y", "o", "u", "r", " ", "p",
      "r", "o", "j", "e", "c", "t", ".">>
t_benchmarked ==
    <<"T", "h", "i", "s", " ", "p", "r", "o", "j", "e", "c", "t", " ", "w",
      "a", "s", " ", "b", "e", "n", "c", "h", "m", "a", "r", "k", "e", "d",
      " ", "a", "g", "a", "i", "n", "s", "t", " ">>
t_welcome ==
    <<"I", "'", "d", " ", "w", "e", "l", "c", "o", "m", "e", " ", "t", "h",
      "e", " ", "o", "p", "p", "o", "r", "t", "u", "n", "i", "t", "y", " ",
      "t", "o", " ", "d", "i", "s", "c", "u", "s", "s", " ", "h", "o", "w",
      " ", "m", "y", " ", "e", "x", "p", "e", "r", "i", "e", "n", "c", "e",
      " ", "c", "o", "u", "l", "d", " ", "c", "o", "n", "t", "r", "i", "b",
      "u", "t", "e", " ", "t", "o", " ", "y", "o", "u", "r", " ", "t", "e",
      "a", "m", ".">>
t_open_paren ==
    <<" ", "(">>
t_close_paren_newline ==
    <<")", "\n">>
t_interested_in ==
    <<" ", "i", "n", "t", "e", "r", "e", "s", "t", "e", "d", " ", "i", "n",
      ":", " ">>
t_Experience_with ==
    <<"E", "x", "p", "e", "r", "i", "e", "n", "c", "e", " ", "w", "i", "t",
      "h", " ">>
t_similar_projects ==
    <<"s", "i", "m", "i", "l", "a", "r", " ", "p", "r", "o", "j", "e", "c",
      "t", "s">>
t_application_for ==
    <<"'", "s", " ", "a", "p", "p", "l", "i", "c", "a", "t", "i", "o", "n",
      " ", "f", "o", "r", " ">>
t_Subject ==
    <<"S", "u", "b", "j", "e", "c", "t", ":", " ">>
t_blank_line ==
    <<"\n", "\n">>
t_newline ==
    <<"\n">>
t_ellipsis ==
    <<".", ".", ".">>
t_rule_Portfolio ==
    <<"-", "-", "-", "\n", "P", "o", "r", "t", "f", "o", "l", "i", "o", ":",
      " ">>
t_newline_Email ==
    <<"\n", "E", "m", "a", "i", "l", ":", " ">>

\* the years the default opener subtracts for the time at Huawei
HuaweiYearsOffset == 4

\* the length of the description excerpt of the full email
ExcerptLength == 200

\* the number of core expertise entries the value proposition names
ExpertiseShown == 3

\* const templates = profile.emailTemplates || {}
templatesOf(profile) ==
    IF Has(profile, "emailTemplates") THEN profile.emailTemplates ELSE <<>>

\* the opener: the default opener, replaced by the opener of the pitch
\* angle when the profile has one; only the analytics branch substitutes
\* the project title, and String.replace substitutes its first occurrence
openingOf(project, profile, analysis) ==
    LET templates == templatesOf(profile)
        default ==
            orElse(templates, "defaultOpener",
                   t_With \o numberToString(profile.yearsExperience)
                   \o t_years_including
                   \o numberToString(profile.yearsExperience
                                     - HuaweiYearsOffset)
                   \o t_years_at_Huawei)
    IN  IF analysis.pitchAngle = "analytics"
           /\ TruthyString(templates, "analyticsOpener")
        THEN replace(templates.analyticsOpener, t_placeholder, project.title)
        ELSE IF analysis.pitchAngle = "b2b"
                /\ TruthyString(templates, "b2bOpener")
        THEN templates.b2bOpener
        ELSE IF analysis.pitchAngle = "merchant"
                /\ TruthyString(templates, "merchantOpener")
        THEN templates.merchantOpener
        ELSE default

valuePropositionOf(profile, analysis, achievementMatch) ==
    IF achievementMatch.achievement # NoAchievement
    THEN t_I_specifically \o achievementMatch.achievement.name \o t_dash
         \o achievementMatch.achievement.result \o t_which_relates
         \o join(needTexts(analysis), t_comma) \o t_period
    ELSE t_My_expertise
         \o join(sliceFirst(profile.coreExpertise, ExpertiseShown), t_comma)
         \o t_enables

\* socialProof with the benchmark interpolated whether or not the matched
\* achievement has one
socialProofOf_unguarded(achievementMatch) ==
    IF achievementMatch.achievement = NoAchievement THEN <<>>
    ELSE t_benchmarked
         \o interpolate(achievementMatch.achievement, "benchmark")
         \o t_period

\* if (achievementMatch.achievement?.benchmark)
socialProofOf(achievementMatch) ==
    IF achievementMatch.achievement # NoAchievement
       /\ TruthyString(achievementMatch.achievement, "benchmark")
    THEN t_benchmarked \o achievementMatch.achievement.benchmark \o t_period
    ELSE <<>>

ctaOf(profile) ==
    LET templates == templatesOf(profile)
        cta == orElse(templates, "fulltimeCta", t_welcome)
    IN  IF profile.workPreference.acceptsProjectBased
           /\ profile.workPreference.acceptsRemote
        THEN orElse(templates, "parttimeCta",
                    orElse(templates, "remoteCta", cta))
        ELSE cta

signatureOf(profile) ==
    orElse(templatesOf(profile), "signature",
           profile.nameEn \o t_open_paren \o profile.name
           \o t_close_paren_newline \o profile.role)

subjectsOf(project, profile, analysis) ==
    <<profile.role \o t_interested_in \o project.title,
      t_Experience_with
      \o (IF analysis.needs # <<>> /\ needTexts(analysis)[1] # <<>>
          THEN needTexts(analysis)[1] ELSE t_similar_projects)
      \o t_dash \o project.title,
      profile.nameEn \o t_application_for \o project.title>>

\* the template literal of the full email
fullOf(project, profile, email) ==
    t_Subject \o email.subjects[1] \o t_blank_line
    \o email.opening \o t_blank_line
    \o email.valueProposition \o t_blank_line
    \o email.socialProof
    \o (IF email.socialProof # <<>> THEN t_newline ELSE <<>>)
    \o (IF Has(project, "description")
        THEN substringTo(project.description, ExcerptLength)
        ELSE s_undefined)
    \o t_ellipsis \o t_blank_line
    \o email.cta \o t_blank_line
    \o email.signature \o t_blank_line
    \o t_rule_Portfolio \o orElse(profile, "website", <<>>)
    \o t_newline_Email \o interpolate(profile, "email") \o t_newline

buildEmail(project, profile, analysis, achievementMatch) ==
    LET email ==
            [subjects |-> subjectsOf(project, profile, analysis),
             opening |-> openingOf(project, profile, analysis),
             valueProposition |->
                 valuePropositionOf(profile, analysis, achievementMatch),
             socialProof |-> socialProofOf(achievementMatch),
             cta |-> ctaOf(profile),
             signature |-> signatureOf(profile)]
    IN  [subjects |-> email.subjects,
         opening |-> email.opening,
         valueProposition |-> email.valueProposition,
         socialProof |-> email.socialProof,
         cta |-> email.cta,
         full |-> fullOf(project, profile, email)]

-----------------------------------------------------------------------------
(* Inputs of the email assembly *)

s_Sam_Lee ==
    <<"S", "a", "m", " ", "L", "e", "e">>
s_Li_Shan ==
    <<"L", "i", " ", "S", "h", "a", "n">>
s_sam_mail ==
    <<"s", "a", "m", "@", "l", "e", "e", ".", "d", "e", "s", "i", "g", "n">>
s_website ==
    <<"h", "t", "t", "p", "s", ":", "/", "/", "l", "e", "e", ".", "d", "e",
      "s", "i", "g", "n">>
s_UX_Designer ==
    <<"U", "X", " ", "D", "e", "s", "i", "g", "n", "e", "r">>
s_UX_research ==
    <<"U", "X", " ", "r", "e", "s", "e", "a", "r", "c", "h">>
s_Prototyping ==
    <<"P", "r", "o", "t", "o", "t", "y", "p", "i", "n", "g">>
s_Design_systems ==
    <<"D", "e", "s", "i", "g", "n", " ", "s", "y", "s", "t", "e", "m", "s">>
s_Data_viz ==
    <<"D", "a", "t", "a", " ", "v", "i", "z">>
s_Acme_Dashboard ==
    <<"A", "c", "m", "e", " ", "D", "a", "s", "h", "b", "o", "a", "r", "d">>
s_SaaS_Portal ==
    <<"S", "a", "a", "S", " ", "P", "o", "r", "t", "a", "l">>
s_Merchant_App ==
    <<"M", "e", "r", "c", "h", "a", "n", "t", " ", "A", "p", "p">>
s_FinTech_redesign ==
    <<"F", "i", "n", "T", "e", "c", "h", " ", "r", "e", "d", "e", "s", "i",
      "g", "n">>
s_analyticsOpener ==
    <<"Y", "o", "u", "r", " ", "{", "p", "r", "o", "j", "e", "c", "t", "_",
      "t", "i", "t", "l", "e", "}", " ", "b", "r", "i", "e", "f", " ", "c",
      "a", "u", "g", "h", "t", " ", "m", "y", " ", "e", "y", "e", ".">>
s_b2bOpener ==
    <<"B", "2", "B", " ", "p", "r", "o", "d", "u", "c", "t", "s", " ", "a",
      "r", "e", " ", "m", "y", " ", "f", "o", "c", "u", "s", ".">>
s_merchantOpener ==
    <<"M", "e", "r", "c", "h", "a", "n", "t", " ", "t", "o", "o", "l", "s",
      " ", "a", "r", "e", " ", "m", "y", " ", "c", "r", "a", "f", "t", ".">>
s_defaultOpener ==
    <<"H", "e", "l", "l", "o", " ", "t", "h", "e", "r", "e", ".">>
s_fulltimeCta ==
    <<"L", "e", "t", " ", "u", "s", " ", "t", "a", "l", "k", ".">>
s_parttimeCta ==
    <<"P", "a", "r", "t", "-", "t", "i", "m", "e", " ", "s", "u", "i", "t",
      "s", " ", "m", "e", ".">>
s_remoteCta ==
    <<"R", "e", "m", "o", "t", "e", " ", "w", "o", "r", "k", "s", " ", "f",
      "o", "r", " ", "m", "e", ".">>
s_analyticsOpener_twice ==
    <<"{", "p", "r", "o", "j", "e", "c", "t", "_", "t", "i", "t", "l", "e",
      "}", ":", " ", "w", "h", "y", " ", "{", "p", "r", "o", "j", "e", "c",
      "t", "_", "t", "i", "t", "l", "e", "}", " ", "m", "a", "t", "t", "e",
      "r", "s">>
s_b2bOpener_placeholder ==
    <<"A", "b", "o", "u", "t", " ", "{", "p", "r", "o", "j", "e", "c", "t",
      "_", "t", "i", "t", "l", "e", "}">>
s_LongDescription ==
    <<"W", "e", " ", "n", "e", "e", "d", " ", "a", " ", "d", "e", "s", "i",
      "g", "n", "e", "r", " ", "f", "o", "r", " ", "i", "t", ".", " ", "W",
      "e", " ", "n", "e", "e", "d", " ", "a", " ", "d", "e", "s", "i", "g",
      "n", "e", "r", " ", "f", "o", "r", " ", "i", "t", ".", " ", "W", "e",
      " ", "n", "e", "e", "d", " ", "a", " ", "d", "e", "s", "i", "g", "n",
      "e", "r", " ", "f", "o", "r", " ", "i", "t", ".", " ", "W", "e", " ",
      "n", "e", "e", "d", " ", "a", " ", "d", "e", "s", "i", "g", "n", "e",
      "r", " ", "f", "o", "r", " ", "i", "t", ".", " ", "W", "e", " ", "n",
      "e", "e", "d", " ", "a", " ", "d", "e", "s", "i", "g", "n", "e", "r",
      " ", "f", "o", "r", " ", "i", "t", ".", " ", "W", "e", " ", "n", "e",
      "e", "d", " ", "a", " ", "d", "e", "s", "i", "g", "n", "e", "r", " ",
      "f", "o", "r", " ", "i", "t", ".", " ", "W", "e", " ", "n", "e", "e",
      "d", " ", "a", " ", "d", "e", "s", "i", "g", "n", "e", "r", " ", "f",
      "o", "r", " ", "i", "t", ".", " ", "W", "e", " ", "n", "e", "e", "d",
      " ", "a", " ", "d", "e", "s", "i", "g", "n", "e", "r", " ", "f", "o",
      "r", " ", "i", "t", ".", " ">>

\* the values of profile.emailTemplates: absent entries are optional fields
\* the templates do not have; {} is the record without fields
EmailTemplateInputs ==
    {<<>>,
     [analyticsOpener |-> s_analyticsOpener, b2bOpener |-> s_b2bOpener,
      merchantOpener |-> s_merchantOpener, defaultOpener |-> s_defaultOpener,
      fulltimeCta |-> s_fulltimeCta, parttimeCta |-> s_parttimeCta,
      signature |-> s_Sam_Lee],
     [analyticsOpener |-> s_analyticsOpener_twice,
      b2bOpener |-> s_b2bOpener_placeholder,
      remoteCta |-> s_remoteCta, signature |-> s_empty]}

\* the values of profile.highlightProjects of the assembled emails
HighlightInputs ==
    {<<>>,
     <<[name |-> s_X, result |-> s_result,
        keywords |-> <<kw_dashboard, kw_saas>>]>>,
     <<[name |-> s_W, result |-> s_result, keywords |-> <<>>],
       [name |-> s_Y, result |-> s_result, benchmark |-> s_Alipay,
        keywords |-> <<s_Dashboard, kw_merchant>>]>>}

\* the stored profiles of the assembled emails (schema: userProfiles);
\* website and emailTemplates are optional
EmailProfileInputs ==
    LET required ==
            [userId : {"user1"},
             name : {s_Li_Shan}, nameEn : {s_Sam_Lee}, email : {s_sam_mail},
             role : {s_UX_Designer}, roleEn : {s_UX_Designer},
             yearsExperience : {5},
             coreExpertise :
                 {<<s_UX_research, s_Prototyping, s_Design_systems,
                    s_Data_viz>>},
             highlightProjects : HighlightInputs,
             preferredIndustries :
                 [highPriority : {<<>>, <<s_FinTech>>, <<s_FinTech, s_SaaS>>},
                  mediumPriority : {<<>>}],
             workPreference :
                 [acceptsRemote : {TRUE},
                  acceptsProjectBased : BOOLEAN]]
    IN  WithOptional(WithOptional(required, "website", {s_website}),
                     "emailTemplates", EmailTemplateInputs)

\* the stored projects of the assembled emails (schema: projects); title and
\* description are required, clientIndustry is optional
EmailProjectInputs ==
    WithOptional(
        [title : {s_Acme_Dashboard, s_SaaS_Portal, s_Merchant_App, s_Logo},
         description : {s_empty, s_FinTech_redesign, s_LongDescription}],
        "clientIndustry", {s_FinTech})

ComposeRequests ==
    [op : {"composeEmail"}, identity : Users, project : EmailProjectInputs]

\* steps 1 to 3 of generateEmail: analyse the project, match the best
\* achievement, build the email
composeEmail ==
    /\ request.op = "composeEmail"
    /\ response = NoResponse
    /\ firstProfileOf(request.identity) # <<>>
    /\ LET project == request.project
           profile == firstProfileOf(request.identity)[1]
           analysis == analyzeProjectRequirements(project, profile)
           achievementMatch ==
               findBestAchievement(profile.highlightProjects, project)
       IN  response' =
               [op |-> "composeEmail", status |-> "ok",
                value |-> [analysis |-> analysis,
                           achievementMatch |-> achievementMatch,
                           email |-> buildEmail(project, profile, analysis,
                                                achievementMatch)]]
    /\ UNCHANGED <<userProfiles, projects, generatedEmails, searchHistory,
                   exaSearchCache, idCounter, now, inFlight, request>>

InitCompose ==
    /\ userProfiles \in {<<p>> : p \in EmailProfileInputs}
    /\ projects = <<>>
    /\ generatedEmails = <<>>
    /\ searchHistory = <<>>
    /\ exaSearchCache = <<>>
    /\ idCounter = 0
    /\ now = 0
    /\ inFlight = <<>>
    /\ request \in ComposeRequests
    /\ response = NoResponse

NextCompose ==
    composeEmail

SpecCompose == InitCompose /\ [][NextCompose]_vars

\* the outcome of a composeEmail step
Composed ==
    response.op = "composeEmail" /\ response.status = "ok"

-----------------------------------------------------------------------------
(* C11 *)

\* the score increments of the need rules the text of the requested project
\* triggers
RulePoints ==
    (IF AnalyticsTriggered THEN 40 ELSE 0)
    + (IF B2bTriggered THEN 35 ELSE 0)
    + (IF MerchantTriggered THEN 30 ELSE 0)
    + (IF MobileTriggered THEN 25 ELSE 0)
    + (IF DesignSystemTriggered THEN 20 ELSE 0)

\* the industry field of the requested project matches a high-priority
\* industry of the caller's profile (as the scorer matches industries:
\* case-insensitive substring)
IndustryFieldMatches ==
    /\ Has(request.project, "clientIndustry")
    /\ \E ind \in Elements(CallerProfile.preferredIndustries.highPriority) :
           includes(toLowerCase(request.project.clientIndustry),
                    toLowerCase(ind))

\* C11 as stated: the analyzer adds the flat bonus of 30 exactly when the
\* project's industry field matches a high-priority industry, once.
C11_BonusOnIndustryField ==
    Composed =>
        response.value.analysis.score =
            RulePoints + (IF IndustryFieldMatches THEN 30 ELSE 0)

\* C11 amended: the analyzer adds the flat bonus of 30 exactly when the
\* lower-case form of at least one high-priority industry of the profile
\* occurs in the lower-cased title+description of the project, and adds it
\* once however many of them occur; the project's industry field is not
\* read.
C11_BonusOnIndustryInText ==
    Composed =>
        response.value.analysis.score =
            RulePoints + (IF IndustryInText THEN 30 ELSE 0)

\* two high-priority industries occur in the text of a project without an
\* industry field, and the bonus was added once
C11_Witness ==
    /\ Composed
    /\ ~Has(request.project, "clientIndustry")
    /\ Cardinality({ind \in Elements(CallerProfile.preferredIndustries
                                         .highPriority) :
                       includes(TextOf(request.project), toLowerCase(ind))})
           = 2
    /\ response.value.analysis.score = RulePoints + 30

-----------------------------------------------------------------------------
(* Reading the outcome of a composeEmail step *)

ComposedEmail == response.value.email

CallerTemplates ==
    IF Has(CallerProfile, "emailTemplates")
    THEN CallerProfile.emailTemplates ELSE <<>>

\* the name of the opener template of each pitch angle
OpenerOfAngle ==
    "analytics" :> "analyticsOpener" @@ "b2b" :> "b2bOpener" @@
    "merchant" :> "merchantOpener" @@ "default" :> "defaultOpener"

\* the opener template the profile has for the pitch angle of the analysis;
\* without one the default opener template, and without that the empty
\* template (the built-in opener has no placeholder)
ChosenOpenerTemplate ==
    LET own == OpenerOfAngle[response.value.analysis.pitchAngle]
    IN  IF TruthyString(CallerTemplates, own) THEN CallerTemplates[own]
        ELSE IF TruthyString(CallerTemplates, "defaultOpener")
        THEN CallerTemplates.defaultOpener
        ELSE <<>>

RECURSIVE ReplaceEvery(_, _, _)
\* s with every occurrence of the non-empty pattern replaced
ReplaceEvery(s, pattern, replacement) ==
    IF Len(s) < Len(pattern) THEN s
    ELSE IF SubSeq(s, 1, Len(pattern)) = pattern
    THEN replacement
         \o ReplaceEvery(SubSeq(s, Len(pattern) + 1, Len(s)), pattern,
                         replacement)
    ELSE <<s[1]>> \o ReplaceEvery(Tail(s), pattern, replacement)

-----------------------------------------------------------------------------
(* C15 *)

\* C15: for every pitch angle, when the opener template chosen for the
\* angle contains the {project_title} placeholder, once or several times,
\* the opening is the template with the project title in place of every
\* occurrence, and neither the opening nor the full email contains the
\* placeholder.
C15_NoUnresolvedPlaceholder ==
    (Composed /\ includes(ChosenOpenerTemplate, t_placeholder)) =>
        /\ ComposedEmail.opening =
               ReplaceEvery(ChosenOpenerTemplate, t_placeholder,
                            request.project.title)
        /\ ~includes(ComposedEmail.opening, t_placeholder)
        /\ ~includes(ComposedEmail.full, t_placeholder)

-----------------------------------------------------------------------------
(* C16 *)

\* the texts buildEmail returns: the sections, the subject lines and the
\* full email
ComposedTexts ==
    {ComposedEmail.opening, ComposedEmail.valueProposition,
     ComposedEmail.socialProof, ComposedEmail.cta, ComposedEmail.full}
    \cup Elements(ComposedEmail.subjects)

\* the matched achievement has a non-empty benchmark
MatchedBenchmark ==
    /\ response.value.achievementMatch.achievement # NoAchievement
    /\ TruthyString(response.value.achievementMatch.achievement, "benchmark")

\* C16: whichever optional fields of the profile and of the matched
\* achievement are absent, no text buildEmail returns contains "undefined"
\* or "null", and socialProof is the empty string unless the matched
\* achievement carries a benchmark, in which case it is the sentence that
\* names the benchmark.
C16_NoAbsentValueRendered ==
    Composed =>
        /\ \A text \in ComposedTexts :
               ~includes(text, s_undefined) /\ ~includes(text, s_null)
        /\ ComposedEmail.socialProof =
               (IF MatchedBenchmark
                THEN t_benchmarked
                     \o response.value.achievementMatch.achievement.benchmark
                     \o t_period
                ELSE <<>>)

\* an email was built for a profile without website and without
\* emailTemplates from a matched achievement that has no benchmark
C16_Witness ==
    /\ Composed
    /\ ~Has(CallerProfile, "website")
    /\ ~Has(CallerProfile, "emailTemplates")
    /\ response.value.achievementMatch.achievement # NoAchievement
    /\ ~Has(response.value.achievementMatch.achievement, "benchmark")
    /\ ComposedEmail.socialProof = <<>>
    /\ includes(ComposedEmail.full, t_rule_Portfolio \o t_newline_Email)

-----------------------------------------------------------------------------
(* C17 *)

\* the sections of the full email, in the order of the template
ComposedSections ==
    <<t_Subject \o ComposedEmail.subjects[1],
      ComposedEmail.opening,
      ComposedEmail.valueProposition,
      ComposedEmail.socialProof,
      substringTo(request.project.description, ExcerptLength) \o t_ellipsis,
      ComposedEmail.cta,
      signatureOf(CallerProfile),
      t_rule_Portfolio \o orElse(CallerProfile, "website", <<>>)
      \o t_newline_Email \o CallerProfile.email \o t_newline>>

\* C17: the full email is the non-empty sections, in the order subject,
\* opening, value proposition, social proof, project excerpt, CTA,
\* signature, contact footer, every two adjacent ones separated by a blank
\* line.
C17_SectionsJoinedByBlankLines ==
    Composed =>
        ComposedEmail.full =
            join(SelectSeq(ComposedSections, LAMBDA section : section # <<>>),
                 t_blank_line)

-----------------------------------------------------------------------------
(* parseAIResponse (functions/emails) *)

\* the characters \s matches and trim removes, among those of the inputs
WhiteSpace == {" ", "\n", "\t", "\r"}

\* the characters . does not match
LineTerminators == {"\n", "\r"}

\* String.prototype.trim
trim(s) ==
    LET inked == {i \in 1..Len(s) : s[i] \notin WhiteSpace}
    IN  IF inked = {} THEN <<>>
        ELSE SubSeq(s, CHOOSE i \in inked : \A j \in inked : i <= j,
                       CHOOSE i \in inked : \A j \in inked : j <= i)

t_SubjectColon ==
    <<"S", "u", "b", "j", "e", "c", "t", ":">>
t_email_colon ==
    <<"e", "m", "a", "i", "l", ":">>
t_your_industry ==
    <<"y", "o", "u", "r", " ", "i", "n", "d", "u", "s", "t", "r", "y">>

\* most subject lines parseAIResponse takes from the response
MaxParsedSubjects == 3

\* the 1-based index of the last character of the run of characters that .
\* matches and that starts at index k
endOfLine(content, k) ==
    LET stops == {j \in k..Len(content) : content[j] \in LineTerminators}
    IN  IF stops = {} THEN Len(content)
        ELSE (CHOOSE j \in stops : \A l \in stops : j <= l) - 1

\* the 1-based index at which (.+) starts when /Subject:\s*(.+)/ matches at
\* index i, 0 when it does not match there: \s* is greedy and gives
\* characters back until a character follows that . matches
captureStart(content, i) ==
    LET e == i + Len(t_SubjectColon)
        inked == {j \in e..Len(content) : content[j] \notin WhiteSpace}
        w == IF inked = {} THEN Len(content) + 1
             ELSE CHOOSE j \in inked : \A l \in inked : j <= l
        starts == {k \in e..w : k <= Len(content)
                                /\ content[k] \notin LineTerminators}
    IN  IF e - 1 > Len(content) THEN 0
        ELSE IF SubSeq(content, i, e - 1) # t_SubjectColon \/ starts = {}
        THEN 0
        ELSE CHOOSE k \in starts : \A l \in starts : l <= k

RECURSIVE subjectMatchesFrom(_, _)
\* content.match(/Subject:\s*(.+)/g) from index from on: the matches,
\* left to right, each search starting after the previous match
subjectMatchesFrom(content, from) ==
    LET at == {i \in from..Len(content) : captureStart(content, i) > 0}
    IN  IF at = {} THEN <<>>
        ELSE LET i == CHOOSE j \in at : \A l \in at : j <= l
                 end == endOfLine(content, captureStart(content, i))
             IN  <<SubSeq(content, i, end)>>
                 \o subjectMatchesFrom(content, end + 1)

\* match.replace(/Subject:\s*/, "").trim() for a match, which starts with
\* "Subject:"
subjectOfMatch(match) ==
    LET e == Len(t_SubjectColon) + 1
        inked == {j \in e..Len(match) : match[j] \notin WhiteSpace}
    IN  IF inked = {} THEN <<>>
        ELSE trim(SubSeq(match, CHOOSE j \in inked : \A l \in inked : j <= l,
                         Len(match)))

\* the forEach with subjects.length < MaxParsedSubjects dropped
parsedSubjects_unbounded(content) ==
    SelectSeq([i \in 1..Len(subjectMatchesFrom(content, 1)) |->
                  subjectOfMatch(subjectMatchesFrom(content, 1)[i])],
              LAMBDA subject : subject # <<>>)

\* the forEach over subjectMatches: the first MaxParsedSubjects non-empty
\* subjects
parsedSubjects(content) ==
    LET matches == subjectMatchesFrom(content, 1)
        found == SelectSeq([i \in 1..Len(matches) |->
                               subjectOfMatch(matches[i])],
                           LAMBDA subject : subject # <<>>)
    IN  SubSeq(found, 1, Min(MaxParsedSubjects, Len(found)))

\* the email body before the !emailBody fallback: what follows the first
\* "EMAIL:" (in any case), else what follows the line of the last
\* "Subject:", else the empty string
parsedBody(content) ==
    LET emailAt == indexOf(toLowerCase(content), t_email_colon)
        lastSubjectIndex == lastIndexOf(content, t_SubjectColon)
        afterSubjects == substringFrom(content, lastSubjectIndex)
        newlineIndex == indexOf(afterSubjects, t_newline)
    IN  IF emailAt >= 0
        THEN trim(substringFrom(content, emailAt + Len(t_email_colon)))
        ELSE IF lastSubjectIndex >= 0 /\ newlineIndex >= 0
        THEN trim(substringFrom(afterSubjects, newlineIndex))
        ELSE <<>>

\* the three subject lines used when the response has none
fallbackSubjects(project, profile) ==
    <<profile.roleEn \o t_interested_in \o project.title,
      t_Experience_with \o orElse(project, "clientIndustry", t_your_industry)
      \o t_dash \o project.title,
      profile.nameEn \o t_application_for \o project.title>>

parseAIResponse(content, project, profile) ==
    LET subjects == parsedSubjects(content)
        emailBody == parsedBody(content)
    IN  [subjects |-> IF subjects = <<>>
                      THEN fallbackSubjects(project, profile)
                      ELSE subjects,
         emailBody |-> IF emailBody = <<>> THEN content ELSE emailBody]

-----------------------------------------------------------------------------
(* generateEmail and generateEmailWithAI (functions/emails) *)

\* most records of the generatedEmails table
MaxEmails == 2

RECURSIVE split(_, _)
\* String.prototype.split with a non-empty string separator
split(s, separator) ==
    LET i == indexOf(s, separator)
    IN  IF i < 0 THEN <<s>>
        ELSE <<SubSeq(s, 1, i)>>
             \o split(substringFrom(s, i + Len(separator)), separator)

\* list[index] || "" for a 0-based index
elementOrEmpty(list, index) ==
    IF index >= 0 /\ index < Len(list) THEN list[index + 1] ELSE <<>>

\* the checks both handlers start with, in their order: the message of the
\* error thrown, "none" when the call passes them
emailCallError_profileFirst(identity, projectId) ==
    IF projectId \notin DOMAIN projects THEN "Project not found"
    ELSE IF identity = NoIdentity \/ firstProfileOf(identity) = <<>>
    THEN "Profile not found"
    ELSE "none"

emailCallError(identity, projectId) ==
    IF identity = NoIdentity THEN "Unauthorized"
    ELSE IF projectId \notin DOMAIN projects THEN "Project not found"
    ELSE IF firstProfileOf(identity) = <<>> THEN "Profile not found"
    ELSE "none"

\* matchedAchievement: achievementMatch.achievement?.name, a field the
\* record does not have when no achievement matched
withMatchedAchievement(record, achievementMatch) ==
    IF achievementMatch.achievement = NoAchievement THEN record
    ELSE [matchedAchievement |-> achievementMatch.achievement.name] @@ record

\* the record generateEmail inserts
templateEmailRecord(identity, projectId) ==
    LET project == projects[projectId]
        profile == firstProfileOf(identity)[1]
        analysis == analyzeProjectRequirements(project, profile)
        achievementMatch ==
            findBestAchievement(profile.highlightProjects, project)
        email == buildEmail(project, profile, analysis, achievementMatch)
    IN  withMatchedAchievement(
            [userId |-> identity,
             projectId |-> projectId,
             pitchAngle |-> analysis.pitchAngle,
             relevanceScore |-> analysis.score,
             subjectLines |-> email.subjects,
             opening |-> email.opening,
             valueProposition |-> email.valueProposition,
             socialProof |-> email.socialProof,
             callToAction |-> email.cta,
             signature |-> orElse(templatesOf(profile), "signature",
                                  profile.name),
             fullEmail |-> email.full,
             status |-> "draft",
             createdAt |-> now,
             updatedAt |-> now],
            achievementMatch)

\* the record generateEmailWithAI inserts for the content of the response:
\* project and profile are the documents the handler read before the fetch
aiEmailRecord(identity, projectId, project, profile, aiContent) ==
    LET parsed == parseAIResponse(aiContent, project, profile)
        analysis == analyzeProjectRequirements(project, profile)
        achievementMatch ==
            findBestAchievement(profile.highlightProjects, project)
        paragraphs == split(parsed.emailBody, t_blank_line)
    IN  withMatchedAchievement(
            [userId |-> identity,
             projectId |-> projectId,
             pitchAngle |-> analysis.pitchAngle,
             relevanceScore |-> analysis.score,
             subjectLines |-> parsed.subjects,
             opening |-> elementOrEmpty(paragraphs, 0),
             valueProposition |-> elementOrEmpty(paragraphs, 1),
             socialProof |-> <<>>,
             callToAction |-> elementOrEmpty(paragraphs, Len(paragraphs) - 2),
             signature |-> orElse(templatesOf(profile), "signature",
                                  profile.nameEn \o t_open_paren
                                  \o profile.name \o <<")">>),
             fullEmail |-> t_Subject \o parsed.subjects[1] \o t_blank_line
                           \o parsed.emailBody,
             status |-> "draft",
             createdAt |-> now,
             updatedAt |-> now],
            achievementMatch)

\* ctx.db.insert replacing the email the project already has
insertEmail_replacesProjectEmail(record) ==
    LET others == SelectSeq(generatedEmails,
                            LAMBDA e : e.projectId # record.projectId)
    IN  Append(others, [_id |-> idCounter + 1] @@ record)

\* ctx.db.insert("generatedEmails", record): the table with the new record,
\* which gets a fresh _id
insertEmail(record) ==
    Append(generatedEmails, [_id |-> idCounter + 1] @@ record)

\* ctx.db.patch(args.projectId, {hasEmailGenerated: true, ...})
patchEmailGenerated(projectId) ==
    [projects EXCEPT ![projectId] =
        [hasEmailGenerated |-> TRUE, emailGeneratedAt |-> now,
         updatedAt |-> now] @@ @]

\* the list without its k-th element
withoutIndex(list, k) ==
    SubSeq(list, 1, k - 1) \o SubSeq(list, k + 1, Len(list))

\* await fetch(...): the handler waits for the answer; the call keeps what
\* it has read, and other calls are served before it goes on
awaitsFetch(call) ==
    /\ inFlight' = Append(inFlight, call)
    /\ UNCHANGED <<userProfiles, projects, generatedEmails, searchHistory,
                   exaSearchCache, idCounter, now, request, response>>

\* throw new Error(message) of the waiting call inFlight[k], which has
\* written nothing
throwsAfterFetch(op, message, k) ==
    /\ response' = [op |-> op, status |-> "error", error |-> message]
    /\ inFlight' = withoutIndex(inFlight, k)
    /\ UNCHANGED <<userProfiles, projects, generatedEmails, searchHistory,
                   exaSearchCache, idCounter, now>>

\* throw new Error(message) of a call that has not waited: the mutation
\* writes nothing
throws(op, message) ==
    /\ response' = [op |-> op, status |-> "error", error |-> message]
    /\ UNCHANGED <<userProfiles, projects, generatedEmails, searchHistory,
                   exaSearchCache, idCounter, now, inFlight>>

\* the insert and the patch of both handlers, and the returned emailId
storesEmail(op, projectId, record) ==
    /\ generatedEmails' = insertEmail(record)
    /\ projects' = patchEmailGenerated(projectId)
    /\ idCounter' = idCounter + 1
    /\ now' = now + 1
    /\ response' = [op |-> op, status |-> "ok", value |-> idCounter + 1]
    /\ UNCHANGED <<userProfiles, searchHistory, exaSearchCache>>

generateEmail(identity, projectId) ==
    /\ Len(generatedEmails) + Len(inFlight) < MaxEmails
    /\ request' = [op |-> "generateEmail", identity |-> identity,
                   projectId |-> projectId]
    /\ IF emailCallError(identity, projectId) # "none"
       THEN throws("generateEmail", emailCallError(identity, projectId))
       ELSE /\ storesEmail("generateEmail", projectId,
                           templateEmailRecord(identity, projectId))
            /\ UNCHANGED inFlight

\* generateEmailWithAI up to its await of the fetch.  apiKey:
\* process.env.OPENROUTER_API_KEY is set; a call that does not read it is
\* taken once, not once for each of its values.  The call that reaches the
\* fetch waits with the project and the profile it has read.
generateEmailWithAI(identity, projectId, apiKey) ==
    /\ Len(generatedEmails) + Len(inFlight) < MaxEmails
    /\ emailCallError(identity, projectId) # "none" => apiKey
    /\ IF emailCallError(identity, projectId) # "none"
       THEN /\ request' = [op |-> "generateEmailWithAI",
                           identity |-> identity, projectId |-> projectId]
            /\ throws("generateEmailWithAI",
                      emailCallError(identity, projectId))
       ELSE IF ~apiKey
       THEN /\ request' = [op |-> "generateEmailWithAI",
                           identity |-> identity, projectId |-> projectId,
                           apiKey |-> FALSE]
            /\ throws("generateEmailWithAI",
                      "OPENROUTER_API_KEY not configured")
       ELSE awaitsFetch([op |-> "generateEmailWithAI",
                         identity |-> identity, projectId |-> projectId,
                         project |-> projects[projectId],
                         profile |-> firstProfileOf(identity)[1]])

\* error.message of what the try block throws before it writes: the
\* message of the rejected fetch or of the failing response.json(), or
\* `OpenRouter API error: ${response.status} - ${errorText}`
openRouterError(fetched) ==
    IF fetched.kind = "notOk"
    THEN "OpenRouter API error: " \o ToString(fetched.status) \o " - "
         \o fetched.text
    ELSE fetched.message

\* the message of the database when ctx.db.patch is given the _id of a
\* document that is not stored
PatchOfMissingDocument == "Update on nonexistent document"

\* throw new Error(`Failed to generate AI email: ${error.message}`)
failedToGenerate(message) ==
    "Failed to generate AI email: " \o message

\* generateEmailWithAI from the answer of the fetch on, for the waiting
\* call inFlight[k].  fetched: the fetch rejects, or resolves to a response
\* that is not ok, or to one whose body is not JSON, or to one whose JSON
\* has the content (the empty string when it has none).  The record is
\* written from the project and the profile read before the fetch.  When
\* the project was deleted in between, ctx.db.patch throws after the
\* insert: rolledBack says whether the insert is undone with the failing
\* mutation or stays.
generateEmailWithAIAfterFetch(k, fetched, rolledBack) ==
    LET call == inFlight[k]
        op == "generateEmailWithAI"
        record == aiEmailRecord(call.identity, call.projectId, call.project,
                                call.profile, fetched.content)
    IN  /\ call.op = op
        /\ (fetched.kind # "ok" \/ call.projectId \in DOMAIN projects) =>
               rolledBack
        /\ request' = [op |-> op, identity |-> call.identity,
                       projectId |-> call.projectId, apiKey |-> TRUE,
                       fetched |-> fetched]
        /\ IF fetched.kind # "ok"
           THEN throwsAfterFetch(op, failedToGenerate(
                                         openRouterError(fetched)), k)
           ELSE IF call.projectId \in DOMAIN projects
           THEN /\ storesEmail(op, call.projectId, record)
                /\ inFlight' = withoutIndex(inFlight, k)
           ELSE IF rolledBack
           THEN throwsAfterFetch(op, failedToGenerate(
                                         PatchOfMissingDocument), k)
           ELSE /\ generatedEmails' = insertEmail(record)
                /\ idCounter' = idCounter + 1
                /\ now' = now + 1
                /\ response' = [op |-> op, status |-> "error",
                                error |-> failedToGenerate(
                                              PatchOfMissingDocument)]
                /\ inFlight' = withoutIndex(inFlight, k)
                /\ UNCHANGED <<userProfiles, projects, searchHistory,
                               exaSearchCache>>

-----------------------------------------------------------------------------
(* The specification of email generation: stored profiles and projects,     *)
(* calls of generateEmail, generateEmailWithAI and calculateMatchScores     *)

ai_full ==
    <<"S", "U", "B", "J", "E", "C", "T", "S", ":", "\n", "S", "u", "b", "j",
      "e", "c", "t", ":", " ", "H", "i", "\n", "S", "u", "b", "j", "e", "c",
      "t", ":", " ", " ", "U", "X", " ", "\n", "S", "u", "b", "j", "e", "c",
      "t", ":", " ", "Y", "o", "\n", "\n", "E", "M", "A", "I", "L", ":", "\n",
      "H", "i", ",", "\n", "\n", "I", " ", "d", "e", "s", "i", "g", "n", ".",
      "\n", "\n", "C", "a", "l", "l", " ", "m", "e", ".", "\n", "\n", "S",
      "a", "m">>
ai_one_subject ==
    <<"S", "u", "b", "j", "e", "c", "t", ":", " ", "H", "i", "\n", "\n", "E",
      "M", "A", "I", "L", ":", "\n", "H", "i", " ", "t", "e", "a", "m">>
ai_four_subjects ==
    <<"S", "u", "b", "j", "e", "c", "t", ":", " ", "A", "\n", "S", "u", "b",
      "j", "e", "c", "t", ":", " ", "B", "\n", "S", "u", "b", "j", "e", "c",
      "t", ":", "\n", "C", "\n", "S", "u", "b", "j", "e", "c", "t", ":", " ",
      "D", "\n", "D", "e", "a", "r", " ", "t", "e", "a", "m">>

\* data.choices?.[0]?.message?.content || "" of the responses of the
\* generation service
AIContentInputs ==
    {ai_full, ai_one_subject, ai_four_subjects, s_empty}

\* the outcomes of the fetch: the message of a rejected fetch, the status
\* and the body of a response that is not ok, the message of a failing
\* response.json(), the content of a response that is ok
FetchOutcomes ==
    {[kind |-> "rejected", message |-> "fetch failed"],
     [kind |-> "notOk", status |-> 500, text |-> "boom"],
     [kind |-> "notJson", message |-> "Unexpected token"]}
    \cup [kind : {"ok"}, content : AIContentInputs]

\* the caller with an identity and no stored profile
Strangers == {"user2"}

\* the callers of the handlers
CallerInputs == Users \cup Strangers \cup {NoIdentity}

\* the _id of the stored projects, and one no project has
ProjectIds == {"project1", "project2"}
ProjectIdInputs == ProjectIds \cup {"project3"}

\* the caller and args.projectId of the calls of the email handlers: the
\* caller with a profile asks for every project, the caller without
\* profile for a stored and for a missing one, the unauthenticated caller
\* for a stored one
EmailCallInputs ==
    (Users \X ProjectIdInputs)
    \cup (Strangers \X {"project1", "project3"})
    \cup ({NoIdentity} \X {"project1"})

\* the stored profile of user1: the profiles of the assembled emails that
\* accept project-based work, have the two achievements and have either no
\* emailTemplates or the templates with a signature, with the fields the
\* scorer reads
StoredProfileInputs ==
    {[expertiseKeywords |-> [highMatch |-> <<kw_dashboard>>,
                             mediumMatch |-> <<>>],
      preferredClientTypes |-> [highPriority |-> <<>>,
                                mediumPriority |-> <<>>]] @@ p :
        p \in {q \in EmailProfileInputs :
                  /\ q.workPreference.acceptsProjectBased
                  /\ Len(q.highlightProjects) = 2
                  /\ q.preferredIndustries.highPriority = <<s_FinTech>>
                  /\ ~Has(q, "website")
                  /\ Has(q, "emailTemplates") =>
                         TruthyString(q.emailTemplates, "signature")}}

\* a stored project: userId, hasEmailGenerated and updatedAt next to the
\* fields the email is written from
storedProject(title, description) ==
    [userId |-> "user1", title |-> title, description |-> description,
     hasEmailGenerated |-> FALSE, updatedAt |-> 0]

\* the projects table
StoredProjectTables ==
    {"project1" :> storedProject(s_Acme_Dashboard, s_FinTech_redesign)
     @@ "project2" :> storedProject(s_Logo, s_empty)}

\* the args.projects of the calculateMatchScores calls
ScoreArgInputs ==
    {<<[title |-> s_Acme_Dashboard, description |-> s_empty]>>}

\* a calculateMatchScores call
scoreCall(identity, projectsArg) ==
    /\ Len(generatedEmails) < MaxEmails
    /\ request' = [op |-> "calculateMatchScores", identity |-> identity,
                   projects |-> projectsArg]
    /\ response' = matchScoresOutcome(identity, projectsArg)
    /\ UNCHANGED <<userProfiles, projects, generatedEmails, searchHistory,
                   exaSearchCache, idCounter, now, inFlight>>

InitEmail ==
    /\ userProfiles \in {<<p>> : p \in StoredProfileInputs}
    /\ projects \in StoredProjectTables
    /\ generatedEmails = <<>>
    /\ searchHistory = <<>>
    /\ exaSearchCache = <<>>
    /\ idCounter = 0
    /\ now = 1
    /\ inFlight = <<>>
    /\ request = [op |-> "none"]
    /\ response = NoResponse

NextEmail ==
    \/ \E call \in EmailCallInputs :
           generateEmail(call[1], call[2])
    \/ \E call \in EmailCallInputs, apiKey \in BOOLEAN :
           generateEmailWithAI(call[1], call[2], apiKey)
    \/ \E k \in DOMAIN inFlight, fetched \in FetchOutcomes,
          rolledBack \in BOOLEAN :
           generateEmailWithAIAfterFetch(k, fetched, rolledBack)
    \/ \E identity \in CallerInputs, projectsArg \in ScoreArgInputs :
           scoreCall(identity, projectsArg)

SpecEmail == InitEmail /\ [][NextEmail]_vars

-----------------------------------------------------------------------------
(* Reading the behaviour of the email handlers *)

\* the last call was served by the handler op
Served(op) ==
    request.op = op /\ response.op = op

\* the caller of the last call has a stored profile, and the project of the
\* call is stored
CallerReady ==
    /\ request.identity # NoIdentity
    /\ firstProfileOf(request.identity) # <<>>
    /\ request.projectId \in DOMAIN projects

-----------------------------------------------------------------------------
(* C14 *)

\* C14: every stored email, written by generateEmail or by
\* generateEmailWithAI, has exactly 3 subject lines.
C14_ThreeSubjectLines ==
    \A i \in 1..Len(generatedEmails) :
        Len(generatedEmails[i].subjectLines) = 3

-----------------------------------------------------------------------------
(* C18 *)

\* the step is a successful call of one of the two generating handlers
GeneratedStep ==
    /\ request'.op \in {"generateEmail", "generateEmailWithAI"}
    /\ response'.op = request'.op
    /\ response'.status = "ok"
    /\ <<request, response, generatedEmails>>
           # <<request', response', generatedEmails'>>

\* C18: every successful generateEmail or generateEmailWithAI call appends
\* exactly one record, which references the project of the call, leaves
\* every record that was stored before unchanged, also when the project
\* already has emails, and leaves the project with hasEmailGenerated =
\* true.
C18_AppendOnlyHistory ==
    [][GeneratedStep =>
           /\ Len(generatedEmails') = Len(generatedEmails) + 1
           /\ SubSeq(generatedEmails', 1, Len(generatedEmails))
                  = generatedEmails
           /\ generatedEmails'[Len(generatedEmails')].projectId
                  = request'.projectId
           /\ \A i \in 1..Len(generatedEmails) :
                  generatedEmails'[Len(generatedEmails')]._id
                      # generatedEmails[i]._id
           /\ projects'[request'.projectId].hasEmailGenerated = TRUE]_vars

\* a project was regenerated: it has two emails, the first still as the
\* template path wrote it, and its flag is set
C18_Witness ==
    /\ Len(generatedEmails) = 2
    /\ generatedEmails[1].projectId = generatedEmails[2].projectId
    /\ generatedEmails[1]._id # generatedEmails[2]._id
    /\ generatedEmails[1].fullEmail # generatedEmails[2].fullEmail
    /\ Served("generateEmailWithAI") /\ response.status = "ok"
    /\ projects[request.projectId].hasEmailGenerated = TRUE

-----------------------------------------------------------------------------
(* C19 *)

\* C19: when the generation service fails (the fetch rejects or the
\* response is not ok) for a caller with a profile, a stored project and a
\* configured key, generateEmailWithAI still succeeds: the call ends with
\* a stored email of the project and hasEmailGenerated = true.
C19_FallsBackToTemplate ==
    (/\ Served("generateEmailWithAI")
     /\ CallerReady
     /\ Has(request, "fetched")
     /\ request.fetched.kind # "ok") =>
        /\ response.status = "ok"
        /\ \E i \in 1..Len(generatedEmails) :
               /\ generatedEmails[i]._id = response.value
               /\ generatedEmails[i].projectId = request.projectId
        /\ projects[request.projectId].hasEmailGenerated = TRUE

-----------------------------------------------------------------------------
(* C20 *)

\* the step is a call of one of the three handlers by a caller without
\* identity or without stored profile
UnservableStep ==
    /\ request'.op \in {"calculateMatchScores", "generateEmail",
                        "generateEmailWithAI"}
    /\ response'.op = request'.op
    /\ <<request, response>> # <<request', response'>>
    /\ \/ request'.identity = NoIdentity
       \/ firstProfileOf(request'.identity) = <<>>

\* C20: a call of calculateMatchScores, generateEmail or
\* generateEmailWithAI by an unauthenticated caller ends with the error
\* "Unauthorized", and one by a caller without a stored profile with the
\* error "Profile not found" ("Project not found" when the email handlers
\* are given a project that is not stored, which they test first); the
\* stored state is unchanged: no email is inserted and no project is
\* modified.
C20_FailsWithoutWriting ==
    [][UnservableStep =>
           /\ response'.status = "error"
           /\ response'.error =
                  (IF request'.identity = NoIdentity THEN "Unauthorized"
                   ELSE IF Has(request', "projectId")
                           /\ request'.projectId \notin DOMAIN projects
                   THEN "Project not found"
                   ELSE "Profile not found")
           /\ UNCHANGED <<userProfiles, projects, generatedEmails>>]_vars

\* after an email was stored, a caller without profile asked for an email
\* of the same stored project and was refused
C20_Witness ==
    /\ Len(generatedEmails) = 1
    /\ Served("generateEmail")
    /\ request.identity \in Strangers
    /\ request.projectId = generatedEmails[1].projectId
    /\ response.status = "error"
    /\ response.error = "Profile not found"

-----------------------------------------------------------------------------
(* C29 *)

\* C29: the priorityScore of every returned result is 100 times its
\* returned matchScore, and so lies in 0..10000.
C29_PriorityIsScaledMatchScore ==
    \A i \in ResultIndices :
        /\ response.value[i].priorityScore = 100 * response.value[i].matchScore
        /\ response.value[i].priorityScore \in 0..10000

-----------------------------------------------------------------------------
(* C28 *)

\* the record the last call stored
StoredRecord ==
    CHOOSE e \in Elements(generatedEmails) : e._id = response.value

\* the sections of a stored record, under the names buildEmail gives them
StoredSections(record) ==
    [subjects |-> record.subjectLines,
     opening |-> record.opening,
     valueProposition |-> record.valueProposition,
     socialProof |-> record.socialProof,
     cta |-> record.callToAction,
     signature |-> record.signature]

\* C28: the record a successful generateEmail call stored has, as opening,
\* valueProposition, socialProof, callToAction and signature, exactly the
\* texts its fullEmail has in these places: the fullEmail is the email
\* template filled with the stored sections.
C28_StoredSectionsAreThoseOfFullEmail ==
    (Served("generateEmail") /\ response.status = "ok") =>
        StoredRecord.fullEmail =
            fullOf(projects[request.projectId], CallerProfile,
                   StoredSections(StoredRecord))

-----------------------------------------------------------------------------
(* The project functions (convex/functions/projects)                        *)

\* the _id the database gives the n-th document, when it is a project
ProjectIdPool ==
    <<"project1", "project2", "project3", "project4", "project5",
      "project6", "project7", "project8", "project9">>

\* the _id of the project ctx.db.insert stores next
freshProjectId ==
    ProjectIdPool[idCounter + 1]

\* return value: the mutation or query ends with this value
returns(op, value) ==
    response' = [op |-> op, status |-> "ok", value |-> value]

\* the handler ends without a return value
returnsNothing(op) ==
    response' = [op |-> op, status |-> "ok"]

\* const { id, ...projectData } = args
projectDataOf(args) ==
    [f \in (DOMAIN args) \ {"id"} |-> args[f]]

\* the document saveProject inserts
insertedProject(identity, projectData) ==
    [userId |-> identity, matchScore |-> 0, emailValid |-> "unknown",
     urlValid |-> "unknown", hasEmailGenerated |-> FALSE,
     createdAt |-> now, updatedAt |-> now] @@ projectData

\* ctx.db.get(id) finds a project, and it is the caller's
ownsProjectIn(table, identity, id) ==
    id \in DOMAIN table /\ table[id].userId = identity

ownsProject(identity, id) ==
    ownsProjectIn(projects, identity, id)

saveProject(identity, args) ==
    /\ request' = [op |-> "saveProject", identity |-> identity,
                   args |-> args]
    /\ IF identity = NoIdentity
       THEN throws("saveProject", "Unauthorized")
       ELSE IF Has(args, "id")
       THEN IF ~ownsProject(identity, args.id)
            THEN throws("saveProject", "Project not found")
            ELSE /\ projects' =
                        [projects EXCEPT ![args.id] =
                            [updatedAt |-> now] @@ projectDataOf(args) @@ @]
                 /\ returns("saveProject", args.id)
                 /\ UNCHANGED <<userProfiles, generatedEmails, searchHistory,
                                exaSearchCache, idCounter, now, inFlight>>
       ELSE /\ projects' =
                   (freshProjectId :>
                        insertedProject(identity, projectDataOf(args)))
                   @@ projects
            /\ idCounter' = idCounter + 1
            /\ returns("saveProject", freshProjectId)
            /\ UNCHANGED <<userProfiles, generatedEmails, searchHistory,
                           exaSearchCache, now, inFlight>>

\* the optional fields of a score update
OptionalScoreFields == {"priorityScore", "priorityLabel"}

\* ctx.db.patch(id, {matchScore, matchReasons, priorityScore,
\* priorityLabel, updatedAt}): the given fields replace those of the
\* document, and a field the patch gives as undefined (an optional argument
\* that is absent) is removed from it
patchedScore(project, update) ==
    LET given == {"matchScore", "matchReasons"}
                 \cup (OptionalScoreFields \cap DOMAIN update)
        kept == (DOMAIN project) \ (OptionalScoreFields \ DOMAIN update)
    IN  [updatedAt |-> now] @@ [f \in given |-> update[f]]
        @@ [f \in kept |-> project[f]]

updateMatchScore(identity, args) ==
    /\ request' = [op |-> "updateMatchScore", identity |-> identity,
                   args |-> args]
    /\ IF identity = NoIdentity
       THEN throws("updateMatchScore", "Unauthorized")
       ELSE IF ~ownsProject(identity, args.id)
       THEN throws("updateMatchScore", "Project not found")
       ELSE /\ projects' =
                   [projects EXCEPT ![args.id] = patchedScore(@, args)]
            /\ returnsNothing("updateMatchScore")
            /\ UNCHANGED <<userProfiles, generatedEmails, searchHistory,
                           exaSearchCache, idCounter, now, inFlight>>

RECURSIVE appliedUpdates_stopsAtSkip(_, _, _)
\* the loop leaving at the first update it does not apply
appliedUpdates_stopsAtSkip(table, identity, updates) ==
    IF updates = <<>> THEN table
    ELSE IF ~ownsProjectIn(table, identity, Head(updates).id) THEN table
    ELSE appliedUpdates_stopsAtSkip(
             [table EXCEPT ![Head(updates).id] =
                 patchedScore(@, Head(updates))],
             identity, Tail(updates))

RECURSIVE appliedUpdates(_, _, _)
\* the loop of batchUpdateMatchScores: the table after the updates, in
\* their order; an update of a missing or foreign project is passed over
appliedUpdates(table, identity, updates) ==
    IF updates = <<>> THEN table
    ELSE appliedUpdates(
             IF ~ownsProjectIn(table, identity, Head(updates).id)
             THEN table
             ELSE [table EXCEPT ![Head(updates).id] =
                      patchedScore(@, Head(updates))],
             identity, Tail(updates))

batchUpdateMatchScores(identity, updates) ==
    /\ request' = [op |-> "batchUpdateMatchScores", identity |-> identity,
                   updates |-> updates]
    /\ IF identity = NoIdentity
       THEN throws("batchUpdateMatchScores", "Unauthorized")
       ELSE /\ projects' = appliedUpdates(projects, identity, updates)
            /\ returnsNothing("batchUpdateMatchScores")
            /\ UNCHANGED <<userProfiles, generatedEmails, searchHistory,
                           exaSearchCache, idCounter, now, inFlight>>

deleteProject(identity, id) ==
    /\ request' = [op |-> "deleteProject", identity |-> identity, id |-> id]
    /\ IF identity = NoIdentity
       THEN throws("deleteProject", "Unauthorized")
       ELSE IF ~ownsProject(identity, id)
       THEN throws("deleteProject", "Project not found")
       ELSE /\ projects' = [p \in (DOMAIN projects) \ {id} |-> projects[p]]
            /\ returnsNothing("deleteProject")
            /\ UNCHANGED <<userProfiles, generatedEmails, searchHistory,
                           exaSearchCache, idCounter, now, inFlight>>

-----------------------------------------------------------------------------
(* The email queries, updateEmailStatus and deleteEmail (functions/emails)  *)

\* ctx.db.get(id) on generatedEmails: the record, if it is stored
emailOf(id) ==
    SelectSeq(generatedEmails, LAMBDA e : e._id = id)

\* Array.prototype.reverse
RECURSIVE reverse(_)
reverse(list) ==
    IF list = <<>> THEN <<>> ELSE Append(reverse(Tail(list)), Head(list))

\* args.limit || 50
DefaultLimit == 50
limitOf(args) ==
    IF TruthyNumber(args, "limit") THEN args.limit ELSE DefaultLimit

\* the value getEmails returns
emailsFor(identity, args) ==
    IF identity = NoIdentity THEN <<>>
    ELSE IF Has(args, "projectId")
    THEN SelectSeq(generatedEmails,
                   LAMBDA e : e.projectId = args.projectId)
    ELSE LET own == SelectSeq(generatedEmails,
                              LAMBDA e : e.userId = identity)
         IN  IF Has(args, "status") /\ args.status # ""
             THEN sliceFirst(SelectSeq(own,
                                       LAMBDA e : e.status = args.status),
                             limitOf(args))
             ELSE sliceFirst(reverse(own), limitOf(args))

getEmails(identity, args) ==
    /\ request' = [op |-> "getEmails", identity |-> identity, args |-> args]
    /\ returns("getEmails", emailsFor(identity, args))
    /\ UNCHANGED <<userProfiles, projects, generatedEmails, searchHistory,
                   exaSearchCache, idCounter, now, inFlight>>

\* null, as the value of a query that finds nothing to return
NoEmail == [null |-> TRUE]

\* the value getEmail returns: the record, or null
emailFor(identity, id) ==
    IF identity = NoIdentity THEN NoEmail
    ELSE IF emailOf(id) = <<>> \/ emailOf(id)[1].userId # identity
    THEN NoEmail
    ELSE emailOf(id)[1]

getEmail(identity, id) ==
    /\ request' = [op |-> "getEmail", identity |-> identity, id |-> id]
    /\ returns("getEmail", emailFor(identity, id))
    /\ UNCHANGED <<userProfiles, projects, generatedEmails, searchHistory,
                   exaSearchCache, idCounter, now, inFlight>>

\* sentAt: args.sentAt || (args.status === "sent" ? Date.now() : undefined),
\* as a list with the value, empty for undefined
sentAtOf(args) ==
    IF TruthyNumber(args, "sentAt") THEN <<args.sentAt>>
    ELSE IF args.status = "sent" THEN <<now>>
    ELSE <<>>

\* the email after ctx.db.patch(args.id, {status, sentAt, updatedAt}): a
\* field patched with undefined is removed
patchedStatus(email, args) ==
    LET patched == [status |-> args.status, updatedAt |-> now]
                   @@ Without(email, "sentAt")
    IN  IF sentAtOf(args) = <<>> THEN patched
        ELSE [sentAt |-> sentAtOf(args)[1]] @@ patched

updateEmailStatus(identity, args) ==
    /\ request' = [op |-> "updateEmailStatus", identity |-> identity,
                   args |-> args]
    /\ IF identity = NoIdentity
       THEN throws("updateEmailStatus", "Unauthorized")
       ELSE IF emailOf(args.id) = <<>> \/ emailOf(args.id)[1].userId # identity
       THEN throws("updateEmailStatus", "Email not found")
       ELSE /\ generatedEmails' =
                   [i \in 1..Len(generatedEmails) |->
                       IF generatedEmails[i]._id = args.id
                       THEN patchedStatus(generatedEmails[i], args)
                       ELSE generatedEmails[i]]
            /\ returnsNothing("updateEmailStatus")
            /\ UNCHANGED <<userProfiles, projects, searchHistory,
                           exaSearchCache, idCounter, now, inFlight>>

deleteEmail(identity, id) ==
    /\ request' = [op |-> "deleteEmail", identity |-> identity, id |-> id]
    /\ IF identity = NoIdentity
       THEN throws("deleteEmail", "Unauthorized")
       ELSE IF emailOf(id) = <<>> \/ emailOf(id)[1].userId # identity
       THEN throws("deleteEmail", "Email not found")
       ELSE /\ generatedEmails' =
                   SelectSeq(generatedEmails, LAMBDA e : e._id # id)
            /\ returnsNothing("deleteEmail")
            /\ UNCHANGED <<userProfiles, projects, searchHistory,
                           exaSearchCache, idCounter, now, inFlight>>

-----------------------------------------------------------------------------
(* The stored tables and the calls of the project and email functions      *)

\* most documents the database gives an _id
MaxDocuments == 3

\* the authenticated callers: each has a stored profile
Tenants == {"user1", "user2"}

\* the userProfiles table: the profile without email templates, once for
\* each tenant
StoreProfileTables ==
    {<<p, [p EXCEPT !.userId = "user2"]>> :
        p \in {q \in StoredProfileInputs : ~Has(q, "emailTemplates")}}

\* the projects table: project1 of user1 and project2 of user2
StoreProjectTables ==
    {"project1" :> storedProject(s_Acme_Dashboard, s_FinTech_redesign)
     @@ "project2" :> [storedProject(s_Logo, s_empty)
                          EXCEPT !.userId = "user2"]}

\* the caller and the project _id of a call: user1 asks for its own
\* project, for the project of user2 and for a missing one, user2 for its
\* own project, the unauthenticated caller for a stored one
StoreCallInputs ==
    ({"user1"} \X ProjectIdInputs)
    \cup {<<"user2", "project2">>, <<NoIdentity, "project1">>}

\* the projectData of saveProject
ProjectDataInputs ==
    {[platform |-> "upwork", title |-> s_SaaS_Portal,
      description |-> s_empty, tags |-> <<>>]}

\* the score fields of updateMatchScore and of an element of
\* batchUpdateMatchScores: priorityScore and priorityLabel are optional
ScoreInputs ==
    {[matchScore |-> 85, matchReasons |-> <<<<"HighKeyword: ">>>>,
      priorityScore |-> 8500, priorityLabel |-> "A"],
     [matchScore |-> 40, matchReasons |-> <<>>]}

\* the score of the updates between other calls
StoreScoreInputs ==
    {s \in ScoreInputs : Has(s, "priorityScore")}

\* an update of a project
scoreUpdate(id, score) ==
    [id |-> id] @@ score

\* the updates of the batch calls between other calls: a score for both
\* stored projects
StoreBatchInputs ==
    {<<scoreUpdate("project2", s), scoreUpdate("project1", s)>> :
        s \in StoreScoreInputs}

\* the outcomes of the fetch, between other calls
StoreFetchOutcomes ==
    {[kind |-> "rejected", message |-> "fetch failed"],
     [kind |-> "ok", content |-> ai_full]}

\* the status and sentAt of the updateEmailStatus calls
EmailStatusInputs ==
    {[status |-> "sent"], [status |-> "archived"],
     [status |-> "sent", sentAt |-> 5]}

\* the status of the updateEmailStatus calls between other calls
StoreStatusInputs ==
    {e \in EmailStatusInputs : e.status = "sent" /\ ~Has(e, "sentAt")}

\* the _id of the stored emails, and one no email has
EmailIdInputs ==
    {e._id : e \in Elements(generatedEmails)} \cup {0}

\* the args of getEmails
GetEmailsInputs ==
    {<<>>, [status |-> "draft"], [limit |-> 1], [limit |-> 0],
     [status |-> "draft", limit |-> 1]}
    \cup {[projectId |-> id] : id \in ProjectIdInputs}
    \cup {[projectId |-> "project1", status |-> "sent", limit |-> 1]}

InitStore ==
    /\ userProfiles \in StoreProfileTables
    /\ projects \in StoreProjectTables
    /\ generatedEmails = <<>>
    /\ searchHistory = <<>>
    /\ exaSearchCache = <<>>
    /\ idCounter = 2
    /\ now = 1
    /\ inFlight = <<>>
    /\ request = [op |-> "none"]
    /\ response = NoResponse

NextStore ==
    \/ \E projectData \in ProjectDataInputs :
           /\ idCounter + Len(inFlight) < MaxDocuments
           /\ saveProject("user1", projectData)
    \/ \E call \in StoreCallInputs, projectData \in ProjectDataInputs :
           saveProject(call[1], [id |-> call[2]] @@ projectData)
    \/ \E call \in StoreCallInputs, score \in StoreScoreInputs :
           updateMatchScore(call[1], scoreUpdate(call[2], score))
    \/ \E updates \in StoreBatchInputs :
           batchUpdateMatchScores("user1", updates)
    \/ \E call \in StoreCallInputs :
           deleteProject(call[1], call[2])
    \/ \E call \in StoreCallInputs :
           /\ idCounter + Len(inFlight) < MaxDocuments
           /\ generateEmail(call[1], call[2])
    \/ \E call \in StoreCallInputs :
           /\ idCounter + Len(inFlight) < MaxDocuments
           /\ generateEmailWithAI(call[1], call[2], TRUE)
    \/ \E k \in DOMAIN inFlight, fetched \in StoreFetchOutcomes,
          rolledBack \in BOOLEAN :
           generateEmailWithAIAfterFetch(k, fetched, rolledBack)
    \/ \E identity \in Tenants, id \in EmailIdInputs,
          status \in StoreStatusInputs :
           updateEmailStatus(identity, [id |-> id] @@ status)
    \/ \E identity \in Tenants, id \in EmailIdInputs :
           deleteEmail(identity, id)

SpecStore == InitStore /\ [][NextStore]_vars

\* the email queries on the tables the tenants' generateEmail and
\* updateEmailStatus calls leave
NextReads ==
    \/ \E call \in StoreCallInputs :
           generateEmail(call[1], call[2])
    \/ \E identity \in Tenants, id \in EmailIdInputs,
          status \in EmailStatusInputs :
           updateEmailStatus(identity, [id |-> id] @@ status)
    \/ \E identity \in Tenants \cup {NoIdentity}, args \in GetEmailsInputs :
           getEmails(identity, args)
    \/ \E identity \in Tenants \cup {NoIdentity}, id \in EmailIdInputs :
           getEmail(identity, id)

SpecReads == InitStore /\ [][NextReads]_vars

-----------------------------------------------------------------------------
(* C21 *)

\* the mutations of the project and email tables
ProjectMutations ==
    {"saveProject", "updateMatchScore", "batchUpdateMatchScores",
     "deleteProject", "generateEmail", "generateEmailWithAI"}

\* C21: a mutation a user issues leaves every project of another user
\* stored with exactly the fields it had, and after it no email of that
\* user references a project of another user.
C21_WritesStayWithinTenant ==
    [][(request'.op \in ProjectMutations) =>
           /\ \A id \in DOMAIN projects :
                  projects[id].userId # request'.identity =>
                      /\ id \in DOMAIN projects'
                      /\ projects'[id] = projects[id]
           /\ \A e \in Elements(generatedEmails') :
                  (e.userId = request'.identity
                   /\ e.projectId \in DOMAIN projects') =>
                      projects'[e.projectId].userId = e.userId]_vars

-----------------------------------------------------------------------------
(* C22 *)

\* C22: getEmails returns only records of the caller, whatever projectId,
\* status and limit it is given, and getEmail returns a record of the
\* caller or null; an unauthenticated caller gets the empty list and null.
C22_ReadsReturnOwnEmails ==
    /\ Served("getEmails") =>
           /\ \A e \in Elements(response.value) :
                  e.userId = request.identity
           /\ (request.identity = NoIdentity) => (response.value = <<>>)
    /\ Served("getEmail") =>
           /\ (response.value # NoEmail) =>
                  (response.value.userId = request.identity)
           /\ (request.identity = NoIdentity) => (response.value = NoEmail)

-----------------------------------------------------------------------------
(* C23 *)

\* the stored emails that reference a project
EmailsOfProject(id) ==
    {e \in Elements(generatedEmails) : e.projectId = id}

\* C23: a stored project has hasEmailGenerated = true if and only if a
\* stored email references it.
C23_FlagIffEmailStored ==
    \A id \in DOMAIN projects :
        projects[id].hasEmailGenerated <=> (EmailsOfProject(id) # {})

-----------------------------------------------------------------------------
(* C24 *)

\* C24: the projectId of every stored email is the _id of a stored
\* project.
C24_EmailsReferenceStoredProjects ==
    \A e \in Elements(generatedEmails) : e.projectId \in DOMAIN projects

-----------------------------------------------------------------------------
(* updateMatchScore and batchUpdateMatchScores, one call on a stored table *)

\* most updates in the list of a batch call
MaxUpdates == 2

\* project1 with the fields an earlier score update left
scoredBefore(project) ==
    [matchScore |-> 10, matchReasons |-> <<>>, priorityScore |-> 1000,
     priorityLabel |-> "D"] @@ project

\* the projects table: that of the tenants, with project1 never scored or
\* scored before
ScoreProjectTables ==
    StoreProjectTables
    \cup {[t EXCEPT !["project1"] = scoredBefore(@)] :
             t \in StoreProjectTables}

\* the elements of args.updates
UpdateInputs ==
    {scoreUpdate(id, s) : id \in ProjectIdInputs, s \in ScoreInputs}

\* args.updates: the lists of at most MaxUpdates updates
UpdateListInputs ==
    UNION {[1..n -> UpdateInputs] : n \in 0..MaxUpdates}

InitScores ==
    /\ userProfiles \in StoreProfileTables
    /\ projects \in ScoreProjectTables
    /\ generatedEmails = <<>>
    /\ searchHistory = <<>>
    /\ exaSearchCache = <<>>
    /\ idCounter = 2
    /\ now = 1
    /\ inFlight = <<>>
    /\ request = [op |-> "none"]
    /\ response = NoResponse

NextScores ==
    \/ \E identity \in Tenants \cup {NoIdentity}, update \in UpdateInputs :
           /\ request.op = "none"
           /\ updateMatchScore(identity, update)
    \/ \E identity \in Tenants \cup {NoIdentity},
          updates \in UpdateListInputs :
           /\ request.op = "none"
           /\ batchUpdateMatchScores(identity, updates)

SpecScores == InitScores /\ [][NextScores]_vars

-----------------------------------------------------------------------------
(* C30 *)

\* the positions of a list of updates that name the project id
PositionsOf(updates, id) ==
    {i \in 1..Len(updates) : updates[i].id = id}

\* the last update of the list for the project id
LastUpdateOf(updates, id) ==
    updates[CHOOSE i \in PositionsOf(updates, id) :
                \A j \in PositionsOf(updates, id) : j <= i]

\* the fields of a score update
ScoreFields == {"matchScore", "matchReasons"} \cup OptionalScoreFields

\* the document after has the score fields of the update, those the update
\* gives and no optional one it does not give, and otherwise, but for
\* updatedAt, the fields the document before had
ScoreApplied(before, after, update) ==
    /\ (DOMAIN after) \cap ScoreFields = (DOMAIN update) \cap ScoreFields
    /\ \A f \in (DOMAIN update) \cap ScoreFields : after[f] = update[f]
    /\ (DOMAIN after) \ ScoreFields = (DOMAIN before) \ ScoreFields
    /\ \A f \in (DOMAIN after) \ (ScoreFields \cup {"updatedAt"}) :
           after[f] = before[f]

\* a batch call by an authenticated caller has been served in this step
BatchStep ==
    /\ request.op = "none"
    /\ request'.op = "batchUpdateMatchScores"
    /\ request'.identity # NoIdentity

\* an updateMatchScore call of an authenticated caller for a project that
\* is missing or another user's has been served in this step
ForeignUpdateStep ==
    /\ request.op = "none"
    /\ request'.op = "updateMatchScore"
    /\ request'.identity # NoIdentity
    /\ ~ownsProject(request'.identity, request'.args.id)

\* C30: batchUpdateMatchScores succeeds, gives every listed project of the
\* caller the matchScore, matchReasons, priorityScore and priorityLabel of
\* the (last) update listed for it, also when an update before it in the
\* list was skipped, and leaves every other project, a listed project of
\* another user included, as it was; updateMatchScore for a missing or
\* foreign project fails with "Project not found" and changes nothing.
C30_BatchSkipsAndContinues ==
    [][/\ BatchStep =>
              /\ response'.status = "ok"
              /\ DOMAIN projects' = DOMAIN projects
              /\ \A id \in DOMAIN projects :
                     IF /\ projects[id].userId = request'.identity
                        /\ PositionsOf(request'.updates, id) # {}
                     THEN ScoreApplied(projects[id], projects'[id],
                                       LastUpdateOf(request'.updates, id))
                     ELSE projects'[id] = projects[id]
       /\ ForeignUpdateStep =>
              /\ response'.status = "error"
              /\ response'.error = "Project not found"
              /\ projects' = projects]_vars

\* a served batch call whose first update was skipped, the project being
\* another user's, and whose second update is applied to the caller's
\* project, which had other score fields before
C30_Witness ==
    /\ Served("batchUpdateMatchScores") /\ response.status = "ok"
    /\ Len(request.updates) = 2
    /\ request.updates[1].id = "project2"
    /\ request.updates[2].id = "project1"
    /\ request.identity = "user1"
    /\ projects["project2"].userId = "user2"
    /\ ~Has(projects["project2"], "matchScore")
    /\ projects["project1"].matchScore = 40
    /\ request.updates[2].matchScore = 40
    /\ ~Has(projects["project1"], "priorityLabel")

-----------------------------------------------------------------------------
(* The profile functions (convex/functions/profile)                         *)

s_New_User ==
    <<"N", "e", "w", " ", "U", "s", "e", "r">>
s_UTC8 ==
    <<"U", "T", "C", "+", "8">>
s_China ==
    <<"C", "h", "i", "n", "a">>
s_CNY ==
    <<"C", "N", "Y">>

\* most profile documents the database gives an _id
MaxProfiles == 3

\* ctx.db.patch(id, fields) on userProfiles: the given fields replace those
\* of the document with this _id
patchedProfiles(id, fields) ==
    [i \in 1..Len(userProfiles) |->
        IF userProfiles[i]._id = id THEN fields @@ userProfiles[i]
        ELSE userProfiles[i]]

\* saveProfile inserting without looking for the caller's profile
profilesAfterSave_alwaysInserts(identity, args) ==
    Append(userProfiles,
           [_id |-> idCounter + 1, userId |-> identity, updatedAt |-> now]
           @@ args)

\* the userProfiles table after saveProfile: the caller's profile patched
\* with the arguments, or a new profile of the caller
profilesAfterSave(identity, args) ==
    IF firstProfileOf(identity) # <<>>
    THEN patchedProfiles(firstProfileOf(identity)[1]._id,
                         [updatedAt |-> now] @@ args)
    ELSE Append(userProfiles,
                [_id |-> idCounter + 1, userId |-> identity,
                 updatedAt |-> now] @@ args)

saveProfile(identity, args) ==
    /\ request' = [op |-> "saveProfile", identity |-> identity,
                   args |-> args]
    /\ IF identity = NoIdentity
       THEN throws("saveProfile", "Unauthorized")
       ELSE /\ userProfiles' = profilesAfterSave(identity, args)
            /\ idCounter' = IF firstProfileOf(identity) # <<>>
                            THEN idCounter ELSE idCounter + 1
            /\ returns("saveProfile",
                       IF firstProfileOf(identity) # <<>>
                       THEN firstProfileOf(identity)[1]._id
                       ELSE idCounter + 1)
            /\ UNCHANGED <<projects, generatedEmails, searchHistory,
                           exaSearchCache, now, inFlight>>

\* the profile createDefaultProfile inserts; claims are the name and the
\* email of the identity, where it has them
defaultProfile(identity, claims) ==
    [userId |-> identity,
     name |-> orElse(claims, "name", s_New_User),
     nameEn |-> orElse(claims, "name", s_New_User),
     email |-> orElse(claims, "email", <<>>),
     role |-> s_UX_Designer,
     roleEn |-> s_UX_Designer,
     yearsExperience |-> 5,
     coreExpertise |-> <<>>,
     expertiseKeywords |-> [highMatch |-> <<>>, mediumMatch |-> <<>>],
     highlightProjects |-> <<>>,
     preferredIndustries |-> [highPriority |-> <<>>, mediumPriority |-> <<>>],
     preferredClientTypes |-> [highPriority |-> <<>>, mediumPriority |-> <<>>],
     workPreference |->
         [timezone |-> s_UTC8, location |-> s_China, acceptsRemote |-> TRUE,
          acceptsProjectBased |-> TRUE,
          salaryRange |-> [min |-> 0, max |-> 50000, currency |-> s_CNY]],
     skills |-> [designTools |-> <<>>, prototyping |-> <<>>],
     updatedAt |-> now]

createDefaultProfile(identity, claims) ==
    /\ request' = [op |-> "createDefaultProfile", identity |-> identity,
                   claims |-> claims]
    /\ IF identity = NoIdentity
       THEN throws("createDefaultProfile", "Unauthorized")
       ELSE IF firstProfileOf(identity) # <<>>
       THEN /\ returns("createDefaultProfile",
                       firstProfileOf(identity)[1]._id)
            /\ UNCHANGED <<userProfiles, projects, generatedEmails,
                           searchHistory, exaSearchCache, idCounter, now,
                           inFlight>>
       ELSE /\ userProfiles' =
                   Append(userProfiles,
                          [_id |-> idCounter + 1]
                          @@ defaultProfile(identity, claims))
            /\ idCounter' = idCounter + 1
            /\ returns("createDefaultProfile", idCounter + 1)
            /\ UNCHANGED <<projects, generatedEmails, searchHistory,
                           exaSearchCache, now, inFlight>>

deleteProfile(identity) ==
    /\ request' = [op |-> "deleteProfile", identity |-> identity]
    /\ IF identity = NoIdentity
       THEN throws("deleteProfile", "Unauthorized")
       ELSE /\ userProfiles' =
                   IF firstProfileOf(identity) # <<>>
                   THEN SelectSeq(userProfiles,
                                  LAMBDA d :
                                      d._id # firstProfileOf(identity)[1]._id)
                   ELSE userProfiles
            /\ returnsNothing("deleteProfile")
            /\ UNCHANGED <<projects, generatedEmails, searchHistory,
                           exaSearchCache, idCounter, now, inFlight>>

\* the args of saveProfile: the fields of the stored profiles, without and
\* with email templates
SaveProfileInputs ==
    {Without(p, "userId") : p \in StoredProfileInputs}

\* the name and email of the identity: none, or both
IdentityClaimInputs ==
    {<<>>, [name |-> s_Sam_Lee, email |-> s_sam_mail]}

InitProfile ==
    /\ userProfiles = <<>>
    /\ projects = <<>>
    /\ generatedEmails = <<>>
    /\ searchHistory = <<>>
    /\ exaSearchCache = <<>>
    /\ idCounter = 0
    /\ now = 1
    /\ inFlight = <<>>
    /\ request = [op |-> "none"]
    /\ response = NoResponse

NextProfile ==
    \/ \E identity \in Tenants \cup {NoIdentity}, args \in SaveProfileInputs :
           /\ idCounter < MaxProfiles
           /\ saveProfile(identity, args)
    \/ \E identity \in Tenants \cup {NoIdentity},
          claims \in IdentityClaimInputs :
           /\ idCounter < MaxProfiles
           /\ createDefaultProfile(identity, claims)
    \/ \E identity \in Tenants \cup {NoIdentity} :
           deleteProfile(identity)

SpecProfile == InitProfile /\ [][NextProfile]_vars

-----------------------------------------------------------------------------
(* C26 *)

\* the stored profiles of a user
ProfilesOf(userId) ==
    {i \in 1..Len(userProfiles) : userProfiles[i].userId = userId}

\* createDefaultProfile has been served in this step for a caller who had a
\* profile
DefaultOnExistingStep ==
    /\ request'.op = "createDefaultProfile"
    /\ request'.identity # NoIdentity
    /\ ProfilesOf(request'.identity) # {}
    /\ <<request, response>> # <<request', response'>>

\* C26: at every time the userProfiles table holds at most one profile for
\* each userId, and a createDefaultProfile call of a user who has a profile
\* returns the _id of that profile and leaves the table as it is.
C26_OneProfilePerUser ==
    /\ [](\A userId \in Tenants : Cardinality(ProfilesOf(userId)) <= 1)
    /\ [][DefaultOnExistingStep =>
              /\ response'.status = "ok"
              /\ \A i \in ProfilesOf(request'.identity) :
                     response'.value = userProfiles[i]._id
              /\ userProfiles' = userProfiles]_vars

\* both users have a profile, one was deleted before, and the last call, a
\* createDefaultProfile of a user whose profile was saved with saveProfile,
\* returned the _id of that profile
C26_Witness ==
    /\ Served("createDefaultProfile") /\ response.status = "ok"
    /\ Len(userProfiles) = 2
    /\ idCounter = 3
    /\ \E i \in ProfilesOf(request.identity) :
           /\ userProfiles[i]._id = response.value
           /\ userProfiles[i].name # s_New_User
    /\ \A userId \in Tenants : ProfilesOf(userId) # {}

-----------------------------------------------------------------------------
(* The search functions (functions/search)                                 *)

s_fiverr_com ==
    <<"f", "i", "v", "e", "r", "r", ".", "c", "o", "m">>
s_upwork_com ==
    <<"u", "p", "w", "o", "r", "k", ".", "c", "o", "m">>
s_dribbble_com ==
    <<"d", "r", "i", "b", "b", "b", "l", "e", ".", "c", "o", "m">>
s_linkedin_com ==
    <<"l", "i", "n", "k", "e", "d", "i", "n", ".", "c", "o", "m">>
s_angel_co ==
    <<"a", "n", "g", "e", "l", ".", "c", "o">>
s_wellfound_com ==
    <<"w", "e", "l", "l", "f", "o", "u", "n", "d", ".", "c", "o", "m">>
s_remoteok_io ==
    <<"r", "e", "m", "o", "t", "e", "o", "k", ".", "i", "o">>
s_upwork_job_url ==
    <<"h", "t", "t", "p", "s", ":", "/", "/", "u", "p", "w", "o", "r", "k",
      ".", "c", "o", "m", "/", "j", "/", "1">>
s_blog_url ==
    <<"h", "t", "t", "p", "s", ":", "/", "/", "b", "l", "o", "g", ".", "i",
      "o", "/", "p">>
s_Dashboard_job ==
    <<"D", "a", "s", "h", "b", "o", "a", "r", "d", " ", "j", "o", "b">>

\* the optional filter arguments of searchProjects
FilterFields == {"budgetMin", "budgetMax", "clientType"}

\* {budgetMin: args.budgetMin, budgetMax: args.budgetMax, clientType:
\* args.clientType}: a field whose argument is absent is undefined, which
\* neither JSON.stringify nor the database keeps
filtersOf(args) ==
    [f \in (DOMAIN args) \cap FilterFields |-> args[f]]

\* getQueryHash: the SHA-256 digest of JSON.stringify({query, platforms,
\* filters}).  The digest is taken as free of collisions: it stands for the
\* serialised data, two hashes being equal exactly when query, platforms
\* (in their order) and the given filters are.
getQueryHash(query, platforms, filters) ==
    [query |-> query, platforms |-> platforms, filters |-> filters]

\* detectPlatform
detectPlatform(url) ==
    IF includes(url, s_fiverr_com) THEN "fiverr"
    ELSE IF includes(url, s_upwork_com) THEN "upwork"
    ELSE IF includes(url, s_dribbble_com) THEN "dribbble"
    ELSE IF includes(url, s_linkedin_com) THEN "linkedin"
    ELSE IF includes(url, s_angel_co) \/ includes(url, s_wellfound_com)
    THEN "angel"
    ELSE IF includes(url, s_remoteok_io) THEN "remoteok"
    ELSE "other"

\* result.text?.substring(0, 500)
DescriptionLength == 500

\* the element of searchExa's return value for one result of the API; a
\* field whose value is undefined is left out
parsedResult(result) ==
    [externalId |-> result.id,
     platform |-> detectPlatform(result.url),
     title |-> result.title,
     url |-> result.url]
    @@ (IF Has(result, "text")
        THEN [description |-> substringTo(result.text, DescriptionLength)]
        ELSE <<>>)
    @@ (IF Has(result, "publishedDate")
        THEN [publishedAt |-> result.publishedDate]
        ELSE <<>>)

\* data.results.map(...)
parsedResults(results) ==
    [i \in 1..Len(results) |-> parsedResult(results[i])]

\* 24 * 60 * 60 * 1000: the life of a cache entry, in milliseconds
CacheLifetime == 24 * 60 * 60 * 1000

\* .withIndex("by_queryHash", q => q.eq("queryHash", queryHash)).first():
\* the entry stored first among those of the hash, if there is one
cachedEntry(queryHash) ==
    LET hits == SelectSeq(exaSearchCache,
                          LAMBDA e : e.queryHash = queryHash)
    IN  IF hits = <<>> THEN <<>> ELSE <<hits[1]>>

\* the searchHistory record of a call
historyRecord(id, identity, args, resultCount) ==
    [_id |-> id, userId |-> identity, query |-> args.query,
     platforms |-> args.platforms, filters |-> filtersOf(args),
     resultCount |-> resultCount, createdAt |-> now]

\* the exaSearchCache entry of a call
cacheEntry(id, args, results) ==
    [_id |-> id,
     queryHash |-> getQueryHash(args.query, args.platforms, filtersOf(args)),
     query |-> args.query, platforms |-> args.platforms,
     filters |-> filtersOf(args), results |-> results,
     expiresAt |-> now + CacheLifetime]

\* the call is answered from the cache
cacheHit(args) ==
    LET cached == cachedEntry(getQueryHash(args.query, args.platforms,
                                           filtersOf(args)))
    IN  cached # <<>> /\ cached[1].expiresAt > now

\* searchProjects up to the await of the fetch of searchExa.  exaApiKey:
\* process.env.EXA_API_KEY is set; a call that does not read it is taken
\* once, not once for each of its values.
searchProjects(identity, args, exaApiKey) ==
    LET queryHash == getQueryHash(args.query, args.platforms,
                                  filtersOf(args))
        cached == cachedEntry(queryHash)
        call == [op |-> "searchProjects", identity |-> identity,
                 args |-> args]
    IN  /\ (identity = NoIdentity \/ cacheHit(args)) => exaApiKey
        /\ IF identity = NoIdentity
           THEN /\ request' = call
                /\ throws("searchProjects", "Unauthorized")
           ELSE IF cacheHit(args)
           THEN /\ request' = call
                /\ searchHistory' =
                       Append(searchHistory,
                              historyRecord(idCounter + 1, identity, args,
                                            Len(cached[1].results)))
                /\ idCounter' = idCounter + 1
                /\ returns("searchProjects",
                           [projects |-> cached[1].results,
                            fromCache |-> TRUE])
                /\ UNCHANGED <<userProfiles, projects, generatedEmails,
                               exaSearchCache, now, inFlight>>
           ELSE IF ~exaApiKey
           THEN /\ request' = [exaApiKey |-> FALSE] @@ call
                /\ throws("searchProjects", "EXA_API_KEY not configured")
           ELSE awaitsFetch(call)

\* the message of data.results.map(...) when the JSON has no results
MapOfUndefined == "Cannot read properties of undefined (reading 'map')"

\* the message of what searchExa throws: that of the rejected fetch or of
\* the failing response.json(), `Exa API error: ${response.statusText}`, or
\* that of data.results.map on JSON without results
exaError(fetched) ==
    IF fetched.kind = "notOk" THEN "Exa API error: " \o fetched.statusText
    ELSE IF fetched.kind = "ok" THEN MapOfUndefined
    ELSE fetched.message

\* the fields the schema declares for an element of exaSearchCache.results:
\* v.object({externalId?, platform, title, url?, data}), which admits no
\* other field
DeclaredResultFields == {"externalId", "platform", "title", "url", "data"}
RequiredResultFields == {"platform", "title", "data"}

\* the fields of an element of searchExa's return value, in the order of
\* the object literal
ParsedResultFields ==
    <<"externalId", "platform", "title", "url", "description",
      "publishedAt">>

\* what the schema has against one element of results: its first field
\* that is not declared, or else the required field it does not have;
\* "none" for an element the schema admits
resultComplaint(result) ==
    LET extra == SelectSeq(ParsedResultFields,
                           LAMBDA f : Has(result, f)
                                      /\ f \notin DeclaredResultFields)
        missing == RequiredResultFields \ DOMAIN result
    IN  IF extra # <<>> THEN extra[1] \o ": extra field"
        ELSE IF missing # {}
        THEN (CHOOSE f \in missing : TRUE) \o ": missing required field"
        ELSE "none"

\* the message of the database when the entry with these results is
\* inserted into exaSearchCache and the schema is enforced; "none" when
\* the schema admits every element
schemaError(results) ==
    LET rejected == {i \in 1..Len(results) :
                        resultComplaint(results[i]) # "none"}
        first == CHOOSE i \in rejected : \A j \in rejected : i <= j
    IN  IF rejected = {} THEN "none"
        ELSE "Schema validation failed: exaSearchCache.results["
             \o ToString(first - 1) \o "]."
             \o resultComplaint(results[first])

\* searchProjects from the answer of the fetch on, for the waiting call
\* inFlight[k].  fetched: the fetch rejects, or resolves to a response that
\* is not ok, with its statusText, or to one whose body is not JSON, or to
\* one whose JSON has the results or has none.  schemaValidation: the
\* database enforces the declared schema, as a deployment of defineSchema
\* does by default; it then rejects the insert of an entry with results,
\* before anything is written.  A database that does not enforce it
\* stores the entry.  The entry and the history record are written at the
\* time of the answer.
searchProjectsAfterFetch(k, fetched, schemaValidation) ==
    LET call == inFlight[k]
        args == call.args
        results == parsedResults(fetched.results)
    IN  /\ call.op = "searchProjects"
        /\ (fetched.kind # "ok" \/ ~Has(fetched, "results")) =>
               schemaValidation
        /\ (fetched.kind = "ok" /\ Has(fetched, "results")
            /\ schemaError(results) = "none") => schemaValidation
        /\ request' = [exaApiKey |-> TRUE, fetched |-> fetched]
                      @@ [op |-> "searchProjects",
                          identity |-> call.identity, args |-> args]
        /\ IF fetched.kind # "ok" \/ ~Has(fetched, "results")
           THEN throwsAfterFetch("searchProjects", exaError(fetched), k)
           ELSE IF schemaValidation /\ schemaError(results) # "none"
           THEN throwsAfterFetch("searchProjects", schemaError(results), k)
           ELSE /\ exaSearchCache' =
                       Append(exaSearchCache,
                              cacheEntry(idCounter + 1, args,
                                         parsedResults(fetched.results)))
                /\ searchHistory' =
                       Append(searchHistory,
                              historyRecord(idCounter + 2, call.identity,
                                            args, Len(fetched.results)))
                /\ idCounter' = idCounter + 2
                /\ returns("searchProjects",
                           [projects |-> parsedResults(fetched.results),
                            fromCache |-> FALSE])
                /\ inFlight' = withoutIndex(inFlight, k)
                /\ UNCHANGED <<userProfiles, projects, generatedEmails,
                               now>>

clearCache(identity) ==
    /\ request' = [op |-> "clearCache", identity |-> identity]
    /\ IF identity = NoIdentity
       THEN throws("clearCache", "Unauthorized")
       ELSE /\ exaSearchCache' = <<>>
            /\ returnsNothing("clearCache")
            /\ UNCHANGED <<userProfiles, projects, generatedEmails,
                           searchHistory, idCounter, now, inFlight>>

\* most searchProjects calls that are recorded in the search history
MaxSearches == 3

\* most advances of the clock
MaxTicks == 2

\* the advance of the clock between two calls: half the life of an entry
ClockStep == CacheLifetime \div 2

\* time passes between two calls
tick ==
    /\ now < MaxTicks * ClockStep
    /\ now' = now + ClockStep
    /\ UNCHANGED <<userProfiles, projects, generatedEmails, searchHistory,
                   exaSearchCache, idCounter, inFlight, request, response>>

\* the args of searchProjects: two searches that differ in a filter
SearchInputs ==
    {[query |-> kw_dashboard, platforms |-> <<"upwork", "fiverr">>],
     [query |-> kw_dashboard, platforms |-> <<"upwork", "fiverr">>,
      budgetMin |-> 1000]}

\* the results in the JSON of the API: none, one of a job platform with
\* its text, or one of another site
ExaResultInputs ==
    {<<>>,
     <<[id |-> "r1", url |-> s_upwork_job_url, title |-> s_Dashboard_job,
        text |-> s_FinTech_redesign]>>,
     <<[id |-> "r2", url |-> s_blog_url, title |-> s_Logo]>>}

\* the callers of searchProjects: one tenant and the unauthenticated
\* caller; the other tenant only clears the cache
SearchCallers == {"user1", NoIdentity}

\* the outcomes of the fetch of searchExa
ExaFetchOutcomes ==
    {[kind |-> "rejected", message |-> "fetch failed"],
     [kind |-> "notOk", statusText |-> "Bad Gateway"],
     [kind |-> "notJson", message |-> "Unexpected token"],
     [kind |-> "ok"]}
    \cup [kind : {"ok"}, results : ExaResultInputs]

InitCache ==
    /\ userProfiles = <<>>
    /\ projects = <<>>
    /\ generatedEmails = <<>>
    /\ searchHistory = <<>>
    /\ exaSearchCache = <<>>
    /\ idCounter = 0
    /\ now = 0
    /\ inFlight = <<>>
    /\ request = [op |-> "none"]
    /\ response = NoResponse

NextCache ==
    \/ \E identity \in SearchCallers, args \in SearchInputs,
          exaApiKey \in BOOLEAN :
           /\ Len(searchHistory) + Len(inFlight) < MaxSearches
           /\ searchProjects(identity, args, exaApiKey)
    \/ \E k \in DOMAIN inFlight, fetched \in ExaFetchOutcomes,
          schemaValidation \in BOOLEAN :
           searchProjectsAfterFetch(k, fetched, schemaValidation)
    \/ \E identity \in Tenants \cup {NoIdentity} :
           clearCache(identity)
    \/ tick

SpecCache == InitCache /\ [][NextCache]_vars

-----------------------------------------------------------------------------
(* C25 *)

\* the stored entries of the key of a call that have not expired
FreshEntries(args) ==
    {e \in Elements(exaSearchCache) :
        /\ e.queryHash = getQueryHash(args.query, args.platforms,
                                      filtersOf(args))
        /\ e.expiresAt > now}

\* a searchProjects call of an authenticated caller with these args is
\* made in this step: it is served at once, or it starts to wait for the
\* answer of the search API
SearchBegins(args) ==
    \/ /\ request'.op = "searchProjects"
       /\ request'.identity # NoIdentity
       /\ request'.args = args
       /\ ~Has(request', "fetched")
       /\ <<request, response, idCounter>> # <<request', response', idCounter'>>
    \/ /\ Len(inFlight') = Len(inFlight) + 1
       /\ inFlight'[Len(inFlight')].args = args

\* C25: a searchProjects call made while an entry stored for its key has
\* not expired is answered from the cache, with fromCache = true, without
\* a call of the search API and without a new entry, also when an older
\* entry of the key has expired.
C25_FreshEntryAnswersFromCache ==
    [][\A args \in SearchInputs :
           (SearchBegins(args) /\ FreshEntries(args) # {}) =>
               /\ inFlight' = inFlight
               /\ response'.status = "ok"
               /\ response'.value.fromCache
               /\ exaSearchCache' = exaSearchCache]_vars

-----------------------------------------------------------------------------
(* C27 *)

\* the users whose recorded searches were made with the key of a cache
\* entry at the time the entry was stored: the user whose search stored it
\* is among them
StoredBy(entry) ==
    {h.userId : h \in {h \in Elements(searchHistory) :
                          /\ h.query = entry.query
                          /\ h.platforms = entry.platforms
                          /\ h.filters = entry.filters
                          /\ h.createdAt + CacheLifetime = entry.expiresAt}}

\* C27: a clearCache call leaves every cache entry stored that a search of
\* another user stored.
C27_ClearCacheKeepsOthersEntries ==
    [][(request'.op = "clearCache" /\ response'.status = "ok") =>
           \A e \in Elements(exaSearchCache) :
               (request'.identity \notin StoredBy(e)) =>
                   (e \in Elements(exaSearchCache'))]_vars

=============================================================================
